---- MODULE Spec2Model ----
(***************************************************************************)
(* Model of the memory tools of opensearch_mcp_server:                     *)
(*   utils/embeddings.py  (model singleton, generate_embedding,            *)
(*                         prepare_text_for_embedding)                     *)
(*   utils/config.py      (get_config)                                     *)
(*   tools/memory.py      (the MemoryTools handlers)                       *)
(* Python strings are TLA+ strings; TLC evaluates Len, SubSeq and \o on    *)
(* them, so blank tests, strip, slices and f-strings are computed on the   *)
(* characters.  Python lists are sequences, dicts are records.             *)
(***************************************************************************)
EXTENDS Integers, Sequences, FiniteSets, TLC

VARIABLES
    environ,          \* os.environ: the overrides read by get_config / get_embedding_model
    model_instance,   \* embeddings._model_instance, the process-wide model handle
    loads,            \* history: SentenceTransformer(...) constructions that returned a model
    th,               \* per thread: the frame of a generate_embedding / get_embedding_model call
    calls,            \* number of calls started so far (bounds the run, stamps the time)
    pt,               \* a prepare_text_for_embedding call: its document and its result
    es,               \* the backing store behind self.es_client: the documents of each index
    h                 \* the tool handler running on the event loop: its arguments and locals

vars == <<environ, model_instance, loads, th, calls, pt, es, h>>

None == "None"

\* The value None where a model object is expected.
NoModel == [name |-> "", dim |-> 0, serial |-> -1]

\* ---------------------------------------------------------------- bounds
MaxCalls == 3
MaxFiles == 2

Threads == {"t1", "t2"}

\* ------------------------------------------------------- Python strings
Min(a, b) == IF a < b THEN a ELSE b

CharAt(s, i) == SubSeq(s, i, i)

\* str.isspace() of one character
IsSpace(c) == c \in {" ", "\t", "\n"}

\* s[:n]
Prefix(s, n) == SubSeq(s, 1, Min(n, Len(s)))

RECURSIVE LStrip(_)
LStrip(s) ==
    IF Len(s) > 0 /\ IsSpace(CharAt(s, 1)) THEN LStrip(SubSeq(s, 2, Len(s))) ELSE s

RECURSIVE RStrip(_)
RStrip(s) ==
    IF Len(s) > 0 /\ IsSpace(CharAt(s, Len(s))) THEN RStrip(SubSeq(s, 1, Len(s) - 1)) ELSE s

\* str.strip()
Strip(s) == RStrip(LStrip(s))

\* sep.join(parts)
RECURSIVE Join(_, _)
Join(sep, parts) ==
    IF parts = <<>> THEN ""
    ELSE IF Len(parts) = 1 THEN parts[1]
    ELSE parts[1] \o sep \o Join(sep, Tail(parts))

\* s contains sub
Contains(s, sub) ==
    \E i \in 1..(Len(s) - Len(sub) + 1) : SubSeq(s, i, i + Len(sub) - 1) = sub

\* -------------------------------------------------------- utils/config.py
IsDigit(c) == c \in {"0", "1", "2", "3", "4", "5", "6", "7", "8", "9"}

DigitValue(c) ==
    CASE c = "0" -> 0 [] c = "1" -> 1 [] c = "2" -> 2 [] c = "3" -> 3 [] c = "4" -> 4
      [] c = "5" -> 5 [] c = "6" -> 6 [] c = "7" -> 7 [] c = "8" -> 8 [] c = "9" -> 9

RECURSIVE DigitsValue(_, _)
DigitsValue(s, acc) ==
    IF Len(s) = 0 THEN acc
    ELSE DigitsValue(SubSeq(s, 2, Len(s)), 10 * acc + DigitValue(CharAt(s, 1)))

\* int(env_value): surrounding whitespace and one sign are accepted, then
\* decimal digits; anything else raises ValueError (ok = FALSE).
IntParse(env_value) ==
    LET t == Strip(env_value)
        signed == Len(t) > 0 /\ CharAt(t, 1) \in {"+", "-"}
        digits == IF signed THEN SubSeq(t, 2, Len(t)) ELSE t
        ok == Len(digits) > 0 /\ \A i \in 1..Len(digits) : IsDigit(CharAt(digits, i))
    IN [ok |-> ok,
        value |-> IF ~ok THEN 0
                  ELSE IF signed /\ CharAt(t, 1) = "-" THEN 0 - DigitsValue(digits, 0)
                  ELSE DigitsValue(digits, 0)]

\* float(env_value), in tenths: surrounding whitespace and one sign are
\* accepted, then digits with at most one point and at least one digit;
\* anything else raises ValueError (ok = FALSE).  The overrides of the model
\* carry at most one decimal, so the tenths are exact.
FloatParse(env_value) ==
    LET t == Strip(env_value)
        signed == Len(t) > 0 /\ CharAt(t, 1) \in {"+", "-"}
        body == IF signed THEN SubSeq(t, 2, Len(t)) ELSE t
        points == {i \in 1..Len(body) : CharAt(body, i) = "."}
        point == IF points = {} THEN Len(body) + 1 ELSE CHOOSE i \in points : TRUE
        whole == SubSeq(body, 1, point - 1)
        frac == SubSeq(body, point + 1, Len(body))
        ok == /\ Cardinality(points) <= 1
              /\ Len(whole) + Len(frac) > 0
              /\ \A i \in 1..Len(whole) : IsDigit(CharAt(whole, i))
              /\ \A i \in 1..Len(frac) : IsDigit(CharAt(frac, i))
        tenths == 10 * DigitsValue(whole, 0)
                  + (IF Len(frac) > 0 THEN DigitValue(CharAt(frac, 1)) ELSE 0)
    IN [ok |-> ok,
        value |-> IF ~ok THEN 0
                  ELSE IF signed /\ CharAt(t, 1) = "-" THEN 0 - tenths ELSE tenths]

\* DEFAULT_CONFIG["embedding_dimension"]
DEFAULT_EMBEDDING_DIMENSION == 384

\* DEFAULT_CONFIG["vector_search_weight"] and ["keyword_search_weight"], in tenths
DEFAULT_VECTOR_SEARCH_WEIGHT == 7
DEFAULT_KEYWORD_SEARCH_WEIGHT == 3

\* DEFAULT_CONFIG["default_search_size"]
DEFAULT_SEARCH_SIZE == 10

\* Mutant of Converted: the ValueError of the conversion is not caught.
Converted_NoCatch(default, parsed) ==
    IF parsed.ok THEN [raised |-> FALSE, value |-> parsed.value]
    ELSE [raised |-> TRUE, value |-> default]

\* lines 71-80: try: config[config_key] = int(env_value) / float(env_value)
\* except ValueError: a warning is logged and the default stays.
Converted(default, parsed) ==
    IF parsed.ok THEN [raised |-> FALSE, value |-> parsed.value]
    ELSE [raised |-> FALSE, value |-> default]

\* get_config(key), lines 40-88: the default, replaced by the environment
\* override where env_mappings names one; a key the config does not hold
\* gives None.
get_config(key) ==
    LET plain(value) == [raised |-> FALSE, value |-> value]
    IN CASE key = "embedding_model" ->
              plain(IF environ.EMBEDDING_MODEL # None THEN environ.EMBEDDING_MODEL
                    ELSE "intfloat/e5-small-v2")
         [] key = "embedding_dimension" ->
              IF environ.EMBEDDING_DIMENSION = None THEN plain(DEFAULT_EMBEDDING_DIMENSION)
              ELSE Converted(DEFAULT_EMBEDDING_DIMENSION, IntParse(environ.EMBEDDING_DIMENSION))
         [] key = "default_memory_index" ->
              plain(IF environ.MEMORY_INDEX # None THEN environ.MEMORY_INDEX
                    ELSE "slarglebart_memories_v2")
         [] key = "vector_search_weight" ->
              IF environ.VECTOR_SEARCH_WEIGHT = None THEN plain(DEFAULT_VECTOR_SEARCH_WEIGHT)
              ELSE Converted(DEFAULT_VECTOR_SEARCH_WEIGHT,
                             FloatParse(environ.VECTOR_SEARCH_WEIGHT))
         [] key = "keyword_search_weight" ->
              IF environ.KEYWORD_SEARCH_WEIGHT = None THEN plain(DEFAULT_KEYWORD_SEARCH_WEIGHT)
              ELSE Converted(DEFAULT_KEYWORD_SEARCH_WEIGHT,
                             FloatParse(environ.KEYWORD_SEARCH_WEIGHT))
         [] key = "legacy_memory_index" -> plain("slarglebart_memories")
         [] key = "default_search_size" -> plain(DEFAULT_SEARCH_SIZE)
         [] OTHER -> plain(None)

\* get_config("embedding_dimension"): lines 64-75
ConfigEmbeddingDimension == get_config("embedding_dimension").value

\* get_config("default_memory_index"): lines 64-67, 81-82
ConfigDefaultMemoryIndex ==
    IF environ.MEMORY_INDEX # None THEN environ.MEMORY_INDEX ELSE "slarglebart_memories_v2"

\* get_config("legacy_memory_index"): no environment override
ConfigLegacyMemoryIndex == "slarglebart_memories"

\* The deployments: the defaults, and a larger model with its dimension.
Environs ==
    {[EMBEDDING_MODEL |-> None, EMBEDDING_DIMENSION |-> None, MEMORY_INDEX |-> None,
      VECTOR_SEARCH_WEIGHT |-> None, KEYWORD_SEARCH_WEIGHT |-> None],
     [EMBEDDING_MODEL |-> "all-mpnet-base-v2", EMBEDDING_DIMENSION |-> "768",
      MEMORY_INDEX |-> None, VECTOR_SEARCH_WEIGHT |-> None,
      KEYWORD_SEARCH_WEIGHT |-> None]}

\* --------------------------------------------------- utils/embeddings.py
DEFAULT_MODEL_NAME == "intfloat/e5-small-v2"
DEFAULT_DIMENSION == 384
MAX_SEQUENCE_LENGTH == 512

\* The models SentenceTransformer(name) can construct, with the dimension
\* get_sentence_embedding_dimension() reports for each.
ModelNames == {DEFAULT_MODEL_NAME, "all-mpnet-base-v2"}
ModelDimension(name) == IF name = DEFAULT_MODEL_NAME THEN 384 ELSE 768

\* [0.0] * dimension
ZeroVector(dimension) == [i \in 1..dimension |-> 0]

IsZeroVector(v) == \A i \in 1..Len(v) : v[i] = 0

\* embedding_model.encode(text, normalize_embeddings=normalize).tolist():
\* a vector of the model's dimension; its non-zero entries stand for the
\* model's floats.
Encode(m, text) == [i \in 1..m.dim |-> 1]

\* IsBlank without the strip(): only the empty string counts as blank.
IsBlank_NoStrip(text) == text = ""

\* not text or not text.strip()
IsBlank(text) == text = "" \/ Strip(text) = ""

\* lines 79-81
Truncate(text) ==
    IF Len(text) > MAX_SEQUENCE_LENGTH * 4 THEN Prefix(text, MAX_SEQUENCE_LENGTH * 4) ELSE text

\* line 45: model_name or os.getenv("EMBEDDING_MODEL", DEFAULT_MODEL_NAME)
SelectedModel(model_name) ==
    IF model_name # None /\ model_name # "" THEN model_name
    ELSE IF environ.EMBEDDING_MODEL # None THEN environ.EMBEDDING_MODEL
    ELSE DEFAULT_MODEL_NAME

\* lines 92-101, the except branch of generate_embedding: the dimension is
\* the default unless the caller passed a model whose dimension can be read.
ErrorDimension(model, dimOK) ==
    IF model # NoModel /\ dimOK THEN model.dim ELSE DEFAULT_DIMENSION

IdleFrame ==
    [op |-> "none", pc |-> "idle", text |-> "", model |-> NoModel, model_name |-> None,
     embedding_model |-> NoModel, result |-> <<>>, returned |-> NoModel, raised |-> FALSE,
     loaded |-> FALSE, encoded |-> FALSE, failed |-> FALSE, dimension_error |-> FALSE]

\* A thread calls generate_embedding(text, model).
CallGenerateEmbedding(t, text, model) ==
    /\ th[t].pc = "idle"
    /\ calls < MaxCalls
    /\ calls' = calls + 1
    /\ th' = [th EXCEPT ![t] = [IdleFrame EXCEPT !.op = "generate_embedding",
                                                 !.pc = "check_text",
                                                 !.text = text,
                                                 !.model = model]]
    /\ UNCHANGED <<environ, model_instance, loads, pt, es, h>>

\* lines 73-81: blank text returns the zero vector at once; longer text is cut.
GE_CheckText(t) ==
    /\ th[t].pc = "check_text"
    /\ th' = [th EXCEPT ![t] =
                IF IsBlank(th[t].text)
                THEN [@ EXCEPT !.pc = "done", !.result = ZeroVector(DEFAULT_DIMENSION)]
                ELSE [@ EXCEPT !.pc = "get_model", !.text = Truncate(th[t].text)]]
    /\ UNCHANGED <<environ, model_instance, loads, calls, pt, es, h>>

\* line 85 (model or get_embedding_model()) with lines 41-42 of
\* get_embedding_model: the read of the handle.
GE_GetModel(t) ==
    /\ th[t].pc = "get_model"
    /\ th' = [th EXCEPT ![t] =
                IF th[t].model # NoModel
                THEN [@ EXCEPT !.pc = "encode", !.embedding_model = th[t].model]
                ELSE IF model_instance # NoModel
                THEN [@ EXCEPT !.pc = "encode", !.embedding_model = model_instance]
                ELSE [@ EXCEPT !.pc = "load"]]
    /\ UNCHANGED <<environ, model_instance, loads, calls, pt, es, h>>

\* A thread calls get_embedding_model(model_name) itself.
CallGetEmbeddingModel(t, model_name) ==
    /\ th[t].pc = "idle"
    /\ calls < MaxCalls
    /\ calls' = calls + 1
    /\ th' = [th EXCEPT ![t] = [IdleFrame EXCEPT !.op = "get_embedding_model",
                                                 !.pc = "check_instance",
                                                 !.model_name = model_name]]
    /\ UNCHANGED <<environ, model_instance, loads, pt, es, h>>

\* lines 41-42
GEM_CheckInstance(t) ==
    /\ th[t].pc = "check_instance"
    /\ th' = [th EXCEPT ![t] =
                IF model_instance # NoModel
                THEN [@ EXCEPT !.pc = "done", !.returned = model_instance]
                ELSE [@ EXCEPT !.pc = "load"]]
    /\ UNCHANGED <<environ, model_instance, loads, calls, pt, es, h>>

\* lines 45-51: SentenceTransformer(selected_model) returns and is assigned
\* to the global.
GEM_LoadOK(t) ==
    /\ th[t].pc = "load"
    /\ LET name == SelectedModel(th[t].model_name)
           m == [name |-> name, dim |-> ModelDimension(name), serial |-> loads + 1]
       IN /\ name \in ModelNames
          /\ model_instance' = m
          /\ loads' = loads + 1
          /\ th' = [th EXCEPT ![t] =
                      IF th[t].op = "generate_embedding"
                      THEN [@ EXCEPT !.pc = "encode", !.embedding_model = m, !.loaded = TRUE]
                      ELSE [@ EXCEPT !.pc = "done", !.returned = m, !.loaded = TRUE]]
    /\ UNCHANGED <<environ, calls, pt, es, h>>

\* Mutant of GEM_LoadFails: generate_embedding lets the load failure out.
GEM_LoadFails_Propagates(t) ==
    /\ th[t].pc = "load"
    /\ th' = [th EXCEPT ![t] = [@ EXCEPT !.pc = "done", !.failed = TRUE, !.raised = TRUE]]
    /\ UNCHANGED <<environ, model_instance, loads, calls, pt, es, h>>

\* lines 52-54: the constructor raises; get_embedding_model re-raises, and
\* generate_embedding (lines 92-101) turns it into a zero vector.
GEM_LoadFails(t) ==
    /\ th[t].pc = "load"
    /\ \E dimOK \in BOOLEAN :
         th' = [th EXCEPT ![t] =
                  IF th[t].op = "generate_embedding"
                  THEN [@ EXCEPT !.pc = "done", !.failed = TRUE,
                                 !.dimension_error = (th[t].model # NoModel /\ ~dimOK),
                                 !.result = ZeroVector(ErrorDimension(th[t].model, dimOK))]
                  ELSE [@ EXCEPT !.pc = "done", !.raised = TRUE]]
    /\ UNCHANGED <<environ, model_instance, loads, calls, pt, es, h>>

\* lines 88-91: encode returns
GE_EncodeOK(t) ==
    /\ th[t].pc = "encode"
    /\ th' = [th EXCEPT ![t] =
                [@ EXCEPT !.pc = "done", !.encoded = TRUE,
                          !.result = Encode(th[t].embedding_model, th[t].text)]]
    /\ UNCHANGED <<environ, model_instance, loads, calls, pt, es, h>>

\* lines 88, 92-101: encode raises
GE_EncodeFails(t) ==
    /\ th[t].pc = "encode"
    /\ \E dimOK \in BOOLEAN :
         th' = [th EXCEPT ![t] =
                  [@ EXCEPT !.pc = "done", !.failed = TRUE,
                            !.dimension_error = (th[t].model # NoModel /\ ~dimOK),
                            !.result = ZeroVector(ErrorDimension(th[t].model, dimOK))]]
    /\ UNCHANGED <<environ, model_instance, loads, calls, pt, es, h>>

\* The caller takes the result; the thread is free for its next call.
Return(t) ==
    /\ th[t].pc = "done"
    /\ th[t].op \in {"generate_embedding", "get_embedding_model"}
    /\ th' = [th EXCEPT ![t] = IdleFrame]
    /\ UNCHANGED <<environ, model_instance, loads, calls, pt, es, h>>

\* ------------------------------------------- prepare_text_for_embedding
\* An optional value (a dict key that may be absent) is a sequence of
\* length 0 or 1.
Absent == <<>>
Some(v) == <<v>>
Has(o) == o # <<>>
Val(o) == o[1]

\* document["content"]: absent, a string, or a dict with the optional keys
\* summary, key_points (a list, or a string where a list was expected) and
\* description.
NoContent ==
    [kind |-> "absent", str |-> "", summary |-> Absent, key_points_kind |-> "absent",
     key_points |-> <<>>, key_points_str |-> "", description |-> Absent]
StrContent(text) == [NoContent EXCEPT !.kind = "str", !.str = text]
DictContent(summary, key_points, description) ==
    [NoContent EXCEPT !.kind = "dict", !.summary = summary,
                      !.key_points_kind = key_points.kind,
                      !.key_points = key_points.list,
                      !.key_points_str = key_points.str,
                      !.description = description]

\* content["key_points"]: absent, a list of strings, or a string.
NoKeyPoints == [kind |-> "absent", list |-> <<>>, str |-> ""]
ListKeyPoints(l) == [NoKeyPoints EXCEPT !.kind = "list", !.list = l]
StrKeyPoints(text) == [NoKeyPoints EXCEPT !.kind = "str", !.str = text]

\* document["tags"]: absent, a list of strings, or a string.
NoTags == [kind |-> "absent", list |-> <<>>, str |-> ""]
ListTags(l) == [NoTags EXCEPT !.kind = "list", !.list = l]
StrTags(text) == [NoTags EXCEPT !.kind = "str", !.str = text]

\* lines 117-118
TitleParts(document) ==
    IF Has(document.title) /\ Val(document.title) # "" THEN <<Val(document.title)>> ELSE <<>>

\* lines 130-134: key_points of a dict content
KeyPointsParts(content) ==
    IF content.key_points_kind = "list" /\ content.key_points # <<>>
    THEN content.key_points
    ELSE IF content.key_points_kind = "str" /\ content.key_points_str # ""
    THEN <<content.key_points_str>>
    ELSE <<>>

\* Mutant of DictContentParts: description is appended before key_points.
DictContentParts_DescriptionFirst(content) ==
    (IF Has(content.summary) /\ Val(content.summary) # ""
        THEN <<Val(content.summary)>> ELSE <<>>)
    \o (IF Has(content.description) /\ Val(content.description) # ""
        THEN <<Val(content.description)>> ELSE <<>>)
    \o KeyPointsParts(content)

\* lines 125-138: a dict content
DictContentParts(content) ==
    LET parts1 == IF Has(content.summary) /\ Val(content.summary) # ""
                  THEN <<Val(content.summary)>> ELSE <<>>
        parts2 == parts1 \o KeyPointsParts(content)
        parts3 == IF Has(content.description) /\ Val(content.description) # ""
                  THEN parts2 \o <<Val(content.description)>> ELSE parts2
    IN parts3

\* s.startswith(prefix)
StartsWith(s, prefix) == Len(s) >= Len(prefix) /\ SubSeq(s, 1, Len(prefix)) = prefix

\* json.loads on the texts of flat objects: members "key": value separated by
\* commas, a value being a string without escapes, an unsigned integer, true,
\* false or null, with optional whitespace between the tokens.  Any other
\* text is a JSONDecodeError (ok = FALSE).
RECURSIVE JsonSkip(_, _)
JsonSkip(s, i) == IF i <= Len(s) /\ IsSpace(CharAt(s, i)) THEN JsonSkip(s, i + 1) ELSE i

RECURSIVE JsonStringEnd(_, _)
JsonStringEnd(s, i) ==
    IF i > Len(s) \/ CharAt(s, i) = "\\" THEN 0
    ELSE IF CharAt(s, i) = "\"" THEN i
    ELSE JsonStringEnd(s, i + 1)

RECURSIVE JsonDigitsEnd(_, _)
JsonDigitsEnd(s, i) ==
    IF i <= Len(s) /\ IsDigit(CharAt(s, i)) THEN JsonDigitsEnd(s, i + 1) ELSE i

JsonFail == [ok |-> FALSE, kind |-> "", str |-> "", next |-> 0]

\* One value starting at position i, with the position after it.
JsonValue(s, i) ==
    IF i > Len(s) THEN JsonFail
    ELSE IF CharAt(s, i) = "\""
    THEN LET e == JsonStringEnd(s, i + 1)
         IN IF e = 0 THEN JsonFail
            ELSE [ok |-> TRUE, kind |-> "str", str |-> SubSeq(s, i + 1, e - 1), next |-> e + 1]
    ELSE IF IsDigit(CharAt(s, i))
    THEN LET e == JsonDigitsEnd(s, i)
         IN [ok |-> TRUE, kind |-> "int", str |-> SubSeq(s, i, e - 1), next |-> e]
    ELSE IF StartsWith(SubSeq(s, i, Len(s)), "true")
    THEN [ok |-> TRUE, kind |-> "bool", str |-> "true", next |-> i + 4]
    ELSE IF StartsWith(SubSeq(s, i, Len(s)), "false")
    THEN [ok |-> TRUE, kind |-> "bool", str |-> "false", next |-> i + 5]
    ELSE IF StartsWith(SubSeq(s, i, Len(s)), "null")
    THEN [ok |-> TRUE, kind |-> "null", str |-> "null", next |-> i + 4]
    ELSE JsonFail

\* The members of an object from position i (after "{" or ","), appended to
\* the items read so far.
RECURSIVE JsonMembers(_, _, _)
JsonMembers(s, i, items) ==
    LET k == JsonValue(s, JsonSkip(s, i))
        colon == JsonSkip(s, k.next)
        v == JsonValue(s, JsonSkip(s, colon + 1))
        after == JsonSkip(s, v.next)
        read == items \o <<[key |-> k.str, kind |-> v.kind, str |-> v.str]>>
    IN IF ~k.ok \/ k.kind # "str" THEN [ok |-> FALSE, items |-> <<>>]
       ELSE IF colon > Len(s) \/ CharAt(s, colon) # ":" THEN [ok |-> FALSE, items |-> <<>>]
       ELSE IF ~v.ok \/ after > Len(s) THEN [ok |-> FALSE, items |-> <<>>]
       ELSE IF CharAt(s, after) = "}"
       THEN IF JsonSkip(s, after + 1) > Len(s)
            THEN [ok |-> TRUE, items |-> read] ELSE [ok |-> FALSE, items |-> <<>>]
       ELSE IF CharAt(s, after) = "," THEN JsonMembers(s, after + 1, read)
       ELSE [ok |-> FALSE, items |-> <<>>]

\* json.loads(content) for a text whose first token is "{": the items of the
\* dict in their order in the text.
JsonLoadsObject(content) ==
    LET open == JsonSkip(content, 1)
        first == JsonSkip(content, open + 1)
    IN IF open > Len(content) \/ CharAt(content, open) # "{"
       THEN [ok |-> FALSE, items |-> <<>>]
       ELSE IF first <= Len(content) /\ CharAt(content, first) = "}"
       THEN IF JsonSkip(content, first + 1) > Len(content)
            THEN [ok |-> TRUE, items |-> <<>>] ELSE [ok |-> FALSE, items |-> <<>>]
       ELSE JsonMembers(content, open + 1, <<>>)

\* lines 150-152: the non-empty string values of the decoded object
JsonStringValues(items) ==
    LET strings == SelectSeq(items, LAMBDA it : it.kind = "str" /\ it.str # "")
    IN [j \in 1..Len(strings) |-> strings[j].str]

\* lines 145-155: the branch for a string that starts with "{"
JsonContentParts(content) ==
    LET content_obj == JsonLoadsObject(content)
    IN IF content_obj.ok THEN JsonStringValues(content_obj.items) ELSE <<content>>

\* lines 121-155: the if / elif chain over the content; the test of line 141
\* comes before the test of line 145.
ContentParts(document) ==
    LET content == document.content IN
    IF content.kind = "absent" THEN <<>>
    ELSE IF content.kind = "dict" THEN DictContentParts(content)
    ELSE IF content.kind = "str" /\ content.str # "" THEN <<content.str>>
    ELSE IF content.kind = "str" /\ StartsWith(Strip(content.str), "{")
    THEN JsonContentParts(content.str)
    ELSE <<>>

\* lines 158-162
TagsParts(document) ==
    LET tags == document.tags IN
    IF tags.kind = "list" /\ tags.list # <<>> THEN <<Join(" ", tags.list)>>
    ELSE IF tags.kind = "str" /\ tags.str # "" THEN <<tags.str>>
    ELSE <<>>

\* document.get(key, 'unknown')
GetOrUnknown(o) == IF Has(o) THEN Val(o) ELSE "unknown"

\* lines 104-172
prepare_text_for_embedding(document) ==
    LET text_parts == TitleParts(document) \o ContentParts(document) \o TagsParts(document)
        combined_text == Join(" ", text_parts)
        final_text ==
            IF combined_text = "" \/ Strip(combined_text) = ""
            THEN GetOrUnknown(document.memory_id) \o " " \o GetOrUnknown(document.memory_type)
            ELSE combined_text
    IN Strip(final_text)

EmptyDocument ==
    [memory_id |-> Absent, memory_type |-> Absent, title |-> Absent,
     content |-> NoContent, tags |-> NoTags]

IdlePT == [document |-> EmptyDocument, done |-> FALSE, out |-> ""]

\* ------------------------------------------------------ tools/memory.py
\* Floats are written in tenths: 10 is 1.0, 5 is 0.5.
MaxOps == 1

\* The thread the asyncio event loop runs the tool handlers on; a handler
\* has no await, so the handlers run one after the other.
HandlerThread == "t1"

\* uuid.uuid4().hex[:8] of the n-th call
Hex8(n) == <<"0000000a", "0000000b", "0000000c", "0000000d", "0000000e">>[n]

\* str(e) of an exception raised by an es_client request
StoreError == "ConnectionError"

\* A metadata dict with the keys the tools know; {} has none of them.
EmptyMetadata == [confidence |-> Absent, access_count |-> Absent, source |-> Absent]
DefaultMetadata(source) ==
    [confidence |-> Some(10), access_count |-> Some(1), source |-> Some(source)]

\* The document dict the store tools build; keys a tool does not set are
\* Absent.
NoDocument ==
    [memory_id |-> "", memory_type |-> "", title |-> "", content |-> "",
     session_id |-> Absent, key_points |-> Absent, next_steps |-> Absent,
     source_id |-> Absent, target_id |-> Absent, relationship_type |-> Absent,
     strength |-> Absent, created_at |-> 0, updated_at |-> 0, tags |-> <<>>,
     confidence |-> 0, access_count |-> 0, last_accessed |-> 0,
     metadata |-> EmptyMetadata, embedding |-> Absent, nested_content |-> Absent]

\* time_range: None, or a dict that may hold the keys gte and lte.
NoTimeRange == [kind |-> "none", gte |-> Absent, lte |-> Absent]

\* The arguments of a tool call; an argument a tool does not take keeps its
\* value here.  Absent is None.
NoArgs ==
    [memory_type |-> Absent, title |-> "", content |-> "", memory_id |-> Absent,
     tags |-> Absent, metadata |-> Absent, session_id |-> "", summary |-> "", key |-> "",
     config_dir |-> [exists |-> FALSE, files |-> <<>>],
     key_points |-> <<>>, next_steps |-> <<>>, source_id |-> "", target_id |-> "",
     relationship_type |-> "", description |-> "", strength |-> 5, query |-> "",
     size |-> Some(10), min_score |-> 3, time_range |-> NoTimeRange]

\* [TextContent(type="text", text=...)] returned by a handler.  A search
\* result text is kept as the list of its formatted entries.
NoResponse == [kind |-> "none", text |-> "", results |-> <<>>]
TextResponse(kind, text) == [kind |-> kind, text |-> text, results |-> <<>>]

\* The part of a search body the store acts on.
NoQuery == [keys |-> {}, size |-> 0, k |-> 0, vector |-> <<>>, text |-> "", filter |-> <<>>]

IdleHandler ==
    [op |-> "none", pc |-> "idle", args |-> NoArgs, memory_index |-> "", memory_id |-> "",
     timestamp |-> 0, source_exists |-> FALSE, target_exists |-> FALSE,
     document |-> NoDocument, search_query |-> NoQuery, hits |-> <<>>, results |-> <<>>,
     response |-> NoResponse,
     embedding_failed |-> FALSE, exists_returned |-> 0,
     previous |-> NoResponse, store_before |-> <<>>, create_calls |-> 0,
     exists_calls |-> 0, index_calls |-> 0, search_calls |-> 0, bulk_calls |-> 0,
     store_failed |-> FALSE, stats_failed |-> FALSE, deleted |-> {},
     memory_ids |-> <<>>, stats_index |-> "",
     yaml_files |-> <<>>, file_no |-> 0, index_name |-> "", requests |-> <<>>,
     report |-> [scanned |-> 0, created |-> 0, already_exists |-> 0, errors |-> 0,
                 details |-> <<>>]]

\* x or default
OrDefault(o, default) == IF Has(o) /\ Val(o) # default THEN Val(o) ELSE default

\* memory_id if given and non-empty, else prefix + uuid (lines 51-52)
MemoryIdOr(memory_id, prefix) ==
    IF Has(memory_id) /\ Val(memory_id) # "" THEN Val(memory_id)
    ELSE prefix \o Hex8(calls + 1)

\* The frame of a generate_embedding(text) call made by a handler.
EmbeddingCall(text) ==
    [IdleFrame EXCEPT !.op = "generate_embedding", !.pc = "check_text", !.text = text]

\* es_client.exists(index=index, id=id)
EsExists(index, id) == index \in DOMAIN es.docs /\ id \in DOMAIN es.docs[index]

\* Mutant of VectorMapping: the embedding field is a plain float field.
VectorMapping_Float(dimension) == [embedding |-> "float", dimension |-> dimension]

\* The mapping initialize_memory_system gives a new index (lines 503-551),
\* as far as the tools read it: the type and the dimension of "embedding".
VectorMapping(dimension) == [embedding |-> "knn_vector", dimension |-> dimension]

\* The mapping the store derives for an index that a first document
\* creates: the embedding list becomes a plain float field.
DynamicMapping == [embedding |-> "float", dimension |-> 0]

\* Mutant of EsIndex: the request carries no id and the store files the
\* document under an id of its own.
EsIndex_AutoId(index, id, body) ==
    LET old == IF index \in DOMAIN es.docs THEN es.docs[index] ELSE <<>>
        auto == "auto_" \o id
        new == [x \in (DOMAIN old) \cup {auto} |-> IF x = auto THEN body ELSE old[x]]
    IN [docs |-> [i \in (DOMAIN es.docs) \cup {index} |->
                    IF i = index THEN new ELSE es.docs[i]],
        mappings |-> [i \in (DOMAIN es.mappings) \cup {index} |->
                        IF i \in DOMAIN es.mappings THEN es.mappings[i]
                        ELSE DynamicMapping]]

\* es_client.index(index=index, id=id, body=body): the document is created,
\* or replaces the one stored under the id; the index is created on demand.
EsIndex(index, id, body) ==
    LET old == IF index \in DOMAIN es.docs THEN es.docs[index] ELSE <<>>
        new == [x \in (DOMAIN old) \cup {id} |-> IF x = id THEN body ELSE old[x]]
    IN [docs |-> [i \in (DOMAIN es.docs) \cup {index} |->
                    IF i = index THEN new ELSE es.docs[i]],
        mappings |-> [i \in (DOMAIN es.mappings) \cup {index} |->
                        IF i \in DOMAIN es.mappings THEN es.mappings[i]
                        ELSE DynamicMapping]]

\* A handler may start when the event loop is free.
CanBegin == h.pc = "idle" /\ calls < MaxOps

\* A handler's first lines (44-55, 116-127, 192-203): the index name, the
\* memory id and the timestamp.
Started(op, pc, args, prefix) ==
    [IdleHandler EXCEPT !.op = op, !.pc = pc, !.args = args,
                        !.memory_index = ConfigDefaultMemoryIndex,
                        !.memory_id = MemoryIdOr(args.memory_id, prefix),
                        !.timestamp = calls + 1]

\* The handler returns its response; the event loop is free again.
Finish ==
    /\ h.pc = "done"
    /\ h' = IdleHandler
    /\ UNCHANGED <<environ, model_instance, loads, th, calls, pt, es>>

\* The handler's generate_embedding call has returned.
EmbeddingReturned == th[HandlerThread].pc = "done"

\* The call ended with an exception, which the handler's except branch
\* turns into its error text.
EmbeddingRaised == th[HandlerThread].raised

\* The document in the shape prepare_text_for_embedding reads.
AsTextDocument(document) ==
    [memory_id |-> Some(document.memory_id), memory_type |-> Some(document.memory_type),
     title |-> Some(document.title), content |-> StrContent(document.content),
     tags |-> ListTags(document.tags)]

\* ---- store_memory (lines 25-90)
\* lines 44-77: the document is built and enrich_document_with_embedding
\* calls generate_embedding on the prepared text.
SM_Begin(args) ==
    /\ CanBegin
    /\ calls' = calls + 1
    /\ LET st == Started("store_memory", "embedding", args, "memory_")
           document ==
               [NoDocument EXCEPT
                   !.memory_id = st.memory_id,
                   !.memory_type = Val(args.memory_type),
                   !.title = args.title,
                   !.content = args.content,
                   !.created_at = st.timestamp,
                   !.updated_at = st.timestamp,
                   !.tags = OrDefault(args.tags, <<>>),
                   !.confidence = 10,
                   !.access_count = 1,
                   !.last_accessed = st.timestamp,
                   !.metadata = IF Has(args.metadata) /\ Val(args.metadata) # EmptyMetadata
                                THEN Val(args.metadata)
                                ELSE DefaultMetadata("direct_creation")]
       IN /\ h' = [st EXCEPT !.document = document]
          /\ th' = [th EXCEPT ![HandlerThread] =
                      EmbeddingCall(prepare_text_for_embedding(AsTextDocument(document)))]
    /\ UNCHANGED <<environ, model_instance, loads, pt, es>>

\* lines 77-90: the embedding is put into the document and the document is
\* indexed; a store failure becomes the error text.
SM_Index ==
    /\ h.op = "store_memory" /\ h.pc = "embedding"
    /\ EmbeddingReturned
    /\ LET enriched == [h.document EXCEPT !.embedding = Some(th[HandlerThread].result)]
           error == TextResponse("error", "Error storing memory: " \o StoreError)
       IN IF EmbeddingRaised
          THEN es' = es /\ h' = [h EXCEPT !.pc = "done", !.response = error,
                                          !.embedding_failed = th[HandlerThread].failed]
          ELSE \E ok \in BOOLEAN :
                 /\ es' = IF ok THEN EsIndex(h.memory_index, h.memory_id, enriched) ELSE es
                 /\ h' = [h EXCEPT
                            !.pc = "done",
                            !.document = enriched,
                            !.embedding_failed = th[HandlerThread].failed,
                            !.index_calls = @ + 1,
                            !.store_failed = ~ok,
                            !.response =
                                IF ok
                                THEN TextResponse("ok",
                                         "Memory stored successfully with ID: "
                                             \o h.memory_id)
                                ELSE error]
    /\ th' = [th EXCEPT ![HandlerThread] = IdleFrame]
    /\ UNCHANGED <<environ, model_instance, loads, calls, pt>>

\* ---- store_session_memory (lines 93-168)
\* lines 116-155
SS_Begin(args) ==
    /\ CanBegin
    /\ calls' = calls + 1
    /\ LET st == Started("store_session_memory", "embedding", args, "session_")
           document ==
               [NoDocument EXCEPT
                   !.memory_id = st.memory_id,
                   !.memory_type = "episodic",
                   !.title = args.title,
                   !.content = args.summary,
                   !.session_id = Some(args.session_id),
                   !.key_points = Some(args.key_points),
                   !.next_steps = Some(args.next_steps),
                   !.created_at = st.timestamp,
                   !.updated_at = st.timestamp,
                   !.tags = OrDefault(args.tags, <<>>),
                   !.confidence = 10,
                   !.access_count = 1,
                   !.last_accessed = st.timestamp,
                   !.metadata = IF Has(args.metadata) /\ Val(args.metadata) # EmptyMetadata
                                THEN Val(args.metadata)
                                ELSE DefaultMetadata("session_summary")]
           text_for_embedding ==
               args.title \o " " \o args.summary \o " " \o Join(" ", args.key_points)
       IN /\ h' = [st EXCEPT !.document = document]
          /\ th' = [th EXCEPT ![HandlerThread] = EmbeddingCall(text_for_embedding)]
    /\ UNCHANGED <<environ, model_instance, loads, pt, es>>

\* lines 155-168
SS_Index ==
    /\ h.op = "store_session_memory" /\ h.pc = "embedding"
    /\ EmbeddingReturned
    /\ LET document == [h.document EXCEPT !.embedding = Some(th[HandlerThread].result)]
           error == TextResponse("error", "Error storing session memory: " \o StoreError)
       IN IF EmbeddingRaised
          THEN es' = es /\ h' = [h EXCEPT !.pc = "done", !.response = error,
                                          !.embedding_failed = th[HandlerThread].failed]
          ELSE \E ok \in BOOLEAN :
                 /\ es' = IF ok THEN EsIndex(h.memory_index, h.memory_id, document) ELSE es
                 /\ h' = [h EXCEPT
                            !.pc = "done",
                            !.document = document,
                            !.embedding_failed = th[HandlerThread].failed,
                            !.index_calls = @ + 1,
                            !.store_failed = ~ok,
                            !.response =
                                IF ok
                                THEN TextResponse("ok",
                                         "Session memory stored successfully with ID: "
                                             \o h.memory_id)
                                ELSE error]
    /\ th' = [th EXCEPT ![HandlerThread] = IdleFrame]
    /\ UNCHANGED <<environ, model_instance, loads, calls, pt>>

\* ---- create_memory_connection (lines 171-258)
\* lines 192-203
CC_Begin(args) ==
    /\ CanBegin
    /\ calls' = calls + 1
    /\ h' = Started("create_memory_connection", "exists_source", args, "connection_")
    /\ UNCHANGED <<environ, model_instance, loads, th, pt, es>>

\* Mutant of CC_Error: the except branch answers like a success.
CC_Error_Success == TextResponse("ok", "Connection created successfully with ID: ")

\* The except branch of create_memory_connection (lines 256-258)
CC_Error == TextResponse("error", "Error creating memory connection: " \o StoreError)

\* Mutant of CC_ExistsSource: the answer of the store is not used.
CC_ExistsSource_Assumed ==
    /\ h.op = "create_memory_connection" /\ h.pc = "exists_source"
    /\ \E ok \in BOOLEAN :
         h' = IF ok
              THEN [h EXCEPT !.pc = "exists_target", !.exists_calls = @ + 1,
                             !.exists_returned = @ + 1,
                             !.source_exists = TRUE]
              ELSE [h EXCEPT !.pc = "done", !.exists_calls = @ + 1, !.store_failed = TRUE,
                             !.response = CC_Error]
    /\ UNCHANGED <<environ, model_instance, loads, th, calls, pt, es>>

\* line 206
CC_ExistsSource ==
    /\ h.op = "create_memory_connection" /\ h.pc = "exists_source"
    /\ \E ok \in BOOLEAN :
         h' = IF ok
              THEN [h EXCEPT !.pc = "exists_target", !.exists_calls = @ + 1,
                             !.exists_returned = @ + 1,
                             !.source_exists = EsExists(h.memory_index, h.args.source_id)]
              ELSE [h EXCEPT !.pc = "done", !.exists_calls = @ + 1, !.store_failed = TRUE,
                             !.response = CC_Error]
    /\ UNCHANGED <<environ, model_instance, loads, th, calls, pt, es>>

\* line 207
CC_ExistsTarget ==
    /\ h.op = "create_memory_connection" /\ h.pc = "exists_target"
    /\ \E ok \in BOOLEAN :
         h' = IF ok
              THEN [h EXCEPT !.pc = "check", !.exists_calls = @ + 1,
                             !.exists_returned = @ + 1,
                             !.target_exists = EsExists(h.memory_index, h.args.target_id)]
              ELSE [h EXCEPT !.pc = "done", !.exists_calls = @ + 1, !.store_failed = TRUE,
                             !.response = CC_Error]
    /\ UNCHANGED <<environ, model_instance, loads, th, calls, pt, es>>

\* Mutant of MissingEndpoints: the target is reported under the source's test.
MissingEndpoints_Swapped(source_exists, target_exists, source_id, target_id) ==
    (IF ~source_exists THEN <<"Target memory " \o target_id>> ELSE <<>>)
    \o (IF ~target_exists THEN <<"Source memory " \o source_id>> ELSE <<>>)

\* lines 210-214: the list `missing`
MissingEndpoints(source_exists, target_exists, source_id, target_id) ==
    (IF ~source_exists THEN <<"Source memory " \o source_id>> ELSE <<>>)
    \o (IF ~target_exists THEN <<"Target memory " \o target_id>> ELSE <<>>)

\* lines 209-245: a missing endpoint ends the call with the message; else the
\* document is built and generate_embedding is called.
CC_Check ==
    /\ h.op = "create_memory_connection" /\ h.pc = "check"
    /\ IF ~h.source_exists \/ ~h.target_exists
       THEN /\ h' = [h EXCEPT
                       !.pc = "done",
                       !.response =
                           TextResponse("not_found",
                               "Cannot create connection - "
                               \o Join(", ", MissingEndpoints(h.source_exists, h.target_exists,
                                                              h.args.source_id,
                                                              h.args.target_id))
                               \o " not found")]
            /\ th' = th
       ELSE LET document ==
                    [NoDocument EXCEPT
                        !.memory_id = h.memory_id,
                        !.memory_type = "associative",
                        !.title = "Connection: " \o h.args.relationship_type,
                        !.content = h.args.description,
                        !.source_id = Some(h.args.source_id),
                        !.target_id = Some(h.args.target_id),
                        !.relationship_type = Some(h.args.relationship_type),
                        !.strength = Some(h.args.strength),
                        !.created_at = h.timestamp,
                        !.updated_at = h.timestamp,
                        !.tags = OrDefault(h.args.tags, <<>>),
                        !.confidence = 10,
                        !.access_count = 1,
                        !.last_accessed = h.timestamp,
                        !.metadata = DefaultMetadata("explicit_connection")]
                text_for_embedding ==
                    h.args.relationship_type \o " " \o h.args.description
                    \o " connection from " \o h.args.source_id
                    \o " to " \o h.args.target_id
            IN /\ h' = [h EXCEPT !.pc = "embedding", !.document = document]
               /\ th' = [th EXCEPT ![HandlerThread] = EmbeddingCall(text_for_embedding)]
    /\ UNCHANGED <<environ, model_instance, loads, calls, pt, es>>

\* lines 245-258
CC_Index ==
    /\ h.op = "create_memory_connection" /\ h.pc = "embedding"
    /\ EmbeddingReturned
    /\ LET document == [h.document EXCEPT !.embedding = Some(th[HandlerThread].result)]
       IN IF EmbeddingRaised
          THEN es' = es /\ h' = [h EXCEPT !.pc = "done", !.response = CC_Error,
                                          !.embedding_failed = th[HandlerThread].failed]
          ELSE \E ok \in BOOLEAN :
                 /\ es' = IF ok THEN EsIndex(h.memory_index, h.memory_id, document) ELSE es
                 /\ h' = [h EXCEPT
                            !.pc = "done",
                            !.document = document,
                            !.embedding_failed = th[HandlerThread].failed,
                            !.index_calls = @ + 1,
                            !.store_failed = ~ok,
                            !.response =
                                IF ok
                                THEN TextResponse("ok",
                                         "Connection created successfully with ID: "
                                             \o h.memory_id)
                                ELSE CC_Error]
    /\ th' = [th EXCEPT ![HandlerThread] = IdleFrame]
    /\ UNCHANGED <<environ, model_instance, loads, calls, pt>>

\* ---- the read tools
\* One clause of the list `filters`: a term clause on memory_type or a range
\* clause on created_at.
QueryFilter(clause, value, gte, lte) ==
    [clause |-> clause, value |-> value, gte |-> gte, lte |-> lte]

\* Mutant of QueryFilters: the range clause is added only when both bounds
\* are given.
QueryFilters_BothBounds(memory_type, time_range) ==
    (IF Has(memory_type) /\ Val(memory_type) # ""
     THEN <<QueryFilter("term", Val(memory_type), Absent, Absent)>> ELSE <<>>)
    \o (IF time_range.kind = "dict" /\ (Has(time_range.gte) /\ Has(time_range.lte))
        THEN <<QueryFilter("range", "", time_range.gte, time_range.lte)>> ELSE <<>>)

\* config.py lines 191-207: the list `filters`.  `if memory_type` and
\* `if time_range` are truth tests, so an empty string and an empty dict add
\* nothing; the bounds are taken by key, each on its own.
QueryFilters(memory_type, time_range) ==
    (IF Has(memory_type) /\ Val(memory_type) # ""
     THEN <<QueryFilter("term", Val(memory_type), Absent, Absent)>> ELSE <<>>)
    \o (IF time_range.kind = "dict" /\ (Has(time_range.gte) \/ Has(time_range.lte))
        THEN <<QueryFilter("range", "", time_range.gte, time_range.lte)>> ELSE <<>>)

\* config.py line 220: the k of the knn clause
KnnK(result_size) == result_size * 2

\* get_hybrid_search_query (config.py lines 166-252): the top-level keys of
\* the body, the result size, the knn clause, the text of the multi_match
\* clause and the filter list (empty when the body has no "filter" key).
\* size is None (Absent) or an integer.
get_hybrid_search_query(text_query, embedding, size, memory_type, time_range) ==
    LET result_size == IF Has(size) /\ Val(size) # 0 THEN Val(size) ELSE DEFAULT_SEARCH_SIZE
    IN [keys |-> {"size", "query", "script_score"},
        size |-> result_size, k |-> KnnK(result_size), vector |-> embedding,
        text |-> text_query,
        filter |-> QueryFilters(memory_type, time_range)]

\* Every id a document can be stored under, in the order the store ranks
\* equal candidates.
NumSeedDocs == 6
SeedIds == SubSeq(<<"m1", "m2", "m3", "m4", "m5", "m6", "m7", "m8">>, 1, NumSeedDocs)
KnownIds ==
    SeedIds \o <<"session_seed", "s0">>
    \o [n \in 1..5 |-> "memory_" \o Hex8(n)]
    \o [n \in 1..5 |-> "session_" \o Hex8(n)]
    \o [n \in 1..5 |-> "connection_" \o Hex8(n)]

IndexDocs(index) == IF index \in DOMAIN es.docs THEN es.docs[index] ELSE <<>>

\* A stored document passes a filter clause.
Passes(source, f) ==
    IF f.clause = "term" THEN source.memory_type = f.value
    ELSE /\ Has(f.gte) => source.created_at >= Val(f.gte)
         /\ Has(f.lte) => source.created_at <= Val(f.lte)

\* The ids of the documents of an index that pass every filter clause.
Candidates(index, filter) ==
    SelectSeq(KnownIds,
              LAMBDA id : /\ id \in DOMAIN IndexDocs(index)
                          /\ \A i \in 1..Len(filter) : Passes(IndexDocs(index)[id], filter[i]))

\* The _score the store gives the i-th hit, in tenths: every hit scores
\* high, only the first does, or none does.
ScoreProfiles == {"high", "first", "low"}
Score(profile, i) ==
    IF profile = "high" \/ (profile = "first" /\ i = 1) THEN 9 ELSE 1

\* A hit of a search response: _id, _score and the _source fields the
\* tools read.
Hit(index, id, score) ==
    LET source == IndexDocs(index)[id]
    IN [id |-> id, score |-> score, index |-> index,
        memory_type |-> source.memory_type, title |-> source.title,
        memory_id |-> source.memory_id,
        nested |-> Has(source.nested_content)]

\* es_client.search of the hybrid query: the n best candidates, n at most
\* the requested size.
SearchResponses(index, q) ==
    LET ids == Candidates(index, q.filter)
    IN {[i \in 1..n |-> Hit(index, ids[i], Score(profile, i))] :
            n \in 0..Min(q.size, Len(ids)), profile \in ScoreProfiles}

\* The names self resolves: MemoryTools defines register_tools only,
\* es_client and logger are set by the base class.  _update_access_stats is
\* defined at line 436 inside register_tools, as a local function next to
\* the handlers, so it is no attribute of self.
MemoryToolsAttributes == {"register_tools", "es_client", "logger"}

AttributeErrorText ==
    "'MemoryTools' object has no attribute '_update_access_stats'"

\* The painless script of lines 457-463 applied to one stored document.
AccessScript(source, timestamp) ==
    [source EXCEPT
        !.access_count = @ + 1,
        !.last_accessed = timestamp,
        !.metadata = [@ EXCEPT !.access_count =
                         IF Has(@) THEN Some(Val(@) + 1) ELSE Some(1)]]

\* _update_access_stats (lines 436-478): one scripted update per id in one
\* bulk request; an id the index does not hold is an item error of the
\* response, a failed request is logged (ok = FALSE) and changes nothing.
UpdateAccessStats(index, memory_ids, timestamp, ok) ==
    IF memory_ids = <<>> \/ ~ok \/ index \notin DOMAIN es.docs THEN es
    ELSE [es EXCEPT !.docs[index] =
            [id \in DOMAIN es.docs[index] |->
                IF \E i \in 1..Len(memory_ids) : memory_ids[i] = id
                THEN AccessScript(es.docs[index][id], timestamp)
                ELSE es.docs[index][id]]]

\* hits[:5]
TopHits(hits) == SubSeq(hits, 1, Min(5, Len(hits)))

\* [hit.get("_id") for hit in hits]
HitIds(hits) == [i \in 1..Len(hits) |-> hits[i].id]

\* ---- semantic_search_memories (lines 261-357)
\* lines 276-283
SSM_Begin(args) ==
    /\ CanBegin
    /\ calls' = calls + 1
    /\ h' = [Started("semantic_search_memories", "embedding", args, "")
                EXCEPT !.memory_id = ""]
    /\ th' = [th EXCEPT ![HandlerThread] = EmbeddingCall(args.query)]
    /\ UNCHANGED <<environ, model_instance, loads, pt, es>>

\* lines 283-303: the query is built and sent; a store failure becomes the
\* error text, an empty hit list the "no memories" text.
SSM_Search ==
    /\ h.op = "semantic_search_memories" /\ h.pc = "embedding"
    /\ EmbeddingReturned
    /\ LET search_query ==
               get_hybrid_search_query(h.args.query, th[HandlerThread].result,
                                       h.args.size, h.args.memory_type, NoTimeRange)
           error == TextResponse("error", "Error searching memories: " \o StoreError)
           sent == [h EXCEPT !.search_query = search_query, !.search_calls = @ + 1,
                             !.embedding_failed = th[HandlerThread].failed]
       IN IF EmbeddingRaised
          THEN h' = [h EXCEPT !.pc = "done", !.response = error,
                              !.embedding_failed = th[HandlerThread].failed]
          ELSE \/ h' = [sent EXCEPT !.pc = "done", !.store_failed = TRUE, !.response = error]
               \/ \E hits \in SearchResponses(h.memory_index, search_query) :
                    /\ h.memory_index \in DOMAIN es.docs
                    /\ h' = IF hits = <<>>
                         THEN [sent EXCEPT !.pc = "done",
                                           !.response = TextResponse("empty",
                                               "No memories found matching the query.")]
                         ELSE [sent EXCEPT !.pc = "format", !.hits = hits]
    /\ th' = [th EXCEPT ![HandlerThread] = IdleFrame]
    /\ UNCHANGED <<environ, model_instance, loads, calls, pt, es>>

\* lines 306-348: one entry per hit whose score reaches min_score, numbered
\* by the hit's position.
FormatResults(hits, min_score) ==
    LET kept == SelectSeq([i \in 1..Len(hits) |-> [hits[i] EXCEPT !.index = i]],
                          LAMBDA e : ~(e.score < min_score))
    IN [j \in 1..Len(kept) |->
            [n |-> kept[j].index, title |-> kept[j].title, score |-> kept[j].score,
             memory_type |-> kept[j].memory_type, id |-> kept[j].memory_id]]

SSM_Format ==
    /\ h.op = "semantic_search_memories" /\ h.pc = "format"
    /\ h' = [h EXCEPT !.pc = "update_stats",
                      !.results = FormatResults(h.hits, h.args.min_score)]
    /\ UNCHANGED <<environ, model_instance, loads, th, calls, pt, es>>

\* lines 350-357: self._update_access_stats(memory_index, memory_ids) on the
\* ids of the first five hits, then the return of the joined results.  The
\* attribute lookup on self comes first; when it raises, the handler's
\* except branch returns the error text.
SSM_UpdateStats ==
    /\ h.op = "semantic_search_memories" /\ h.pc = "update_stats"
    /\ IF "_update_access_stats" \in MemoryToolsAttributes
       THEN \E ok \in BOOLEAN :
              /\ es' = UpdateAccessStats(h.memory_index, HitIds(TopHits(h.hits)),
                                         h.timestamp, ok)
              /\ h' = [h EXCEPT !.pc = "done", !.bulk_calls = @ + 1, !.stats_failed = ~ok,
                                !.memory_ids = HitIds(TopHits(h.hits)),
                                !.stats_index = h.memory_index,
                                !.response = [kind |-> "results", text |-> "",
                                              results |-> h.results]]
       ELSE /\ es' = es
            /\ h' = [h EXCEPT !.pc = "done",
                              !.memory_ids = HitIds(TopHits(h.hits)),
                              !.response = TextResponse("error",
                                  "Error searching memories: " \o AttributeErrorText)]
    /\ UNCHANGED <<environ, model_instance, loads, th, calls, pt>>

\* ---- get_last_session_memory (lines 360-434)
GL_Begin ==
    /\ CanBegin
    /\ calls' = calls + 1
    /\ h' = [Started("get_last_session_memory", "search_primary", NoArgs, "")
                EXCEPT !.memory_id = ""]
    /\ UNCHANGED <<environ, model_instance, loads, th, pt, es>>

\* The body of lines 371-381 run by the store: the newest episodic document.
LastSessionResponses(index) ==
    LET docs == IndexDocs(index)
        episodic == {id \in DOMAIN docs : docs[id].memory_type = "episodic"}
        newest == {id \in episodic :
                     \A other \in episodic : docs[other].created_at <= docs[id].created_at}
    IN IF episodic = {} THEN {<<>>} ELSE {<<Hit(index, id, 10)>> : id \in newest}

GL_Error ==
    TextResponse("error", "Error retrieving last session memory: " \o StoreError)

\* lines 384-392
GL_SearchPrimary ==
    /\ h.op = "get_last_session_memory" /\ h.pc = "search_primary"
    /\ \/ h' = [h EXCEPT !.pc = "done", !.search_calls = @ + 1, !.store_failed = TRUE,
                        !.response = GL_Error]
       \/ \E hits \in LastSessionResponses(h.memory_index) :
            /\ h.memory_index \in DOMAIN es.docs
            /\ h' = [h EXCEPT !.pc = IF hits = <<>> THEN "search_legacy" ELSE "format",
                              !.search_calls = @ + 1, !.hits = hits]
    /\ UNCHANGED <<environ, model_instance, loads, th, calls, pt, es>>

\* lines 392-402
GL_SearchLegacy ==
    /\ h.op = "get_last_session_memory" /\ h.pc = "search_legacy"
    /\ \/ h' = [h EXCEPT !.pc = "done", !.search_calls = @ + 1, !.store_failed = TRUE,
                        !.response = GL_Error]
       \/ \E hits \in LastSessionResponses(ConfigLegacyMemoryIndex) :
            /\ ConfigLegacyMemoryIndex \in DOMAIN es.docs
            /\ h' = IF hits = <<>>
                    THEN [h EXCEPT !.pc = "done", !.search_calls = @ + 1,
                                   !.response = TextResponse("empty",
                                                             "No session memories found.")]
                    ELSE [h EXCEPT !.pc = "format", !.search_calls = @ + 1, !.hits = hits]
    /\ UNCHANGED <<environ, model_instance, loads, th, calls, pt, es>>

\* lines 405-426
GL_Format ==
    /\ h.op = "get_last_session_memory" /\ h.pc = "format"
    /\ h' = [h EXCEPT !.pc = "update_stats",
                      !.results = <<[n |-> 1, title |-> h.hits[1].title,
                                     score |-> h.hits[1].score,
                                     memory_type |-> h.hits[1].memory_type,
                                     id |-> h.hits[1].memory_id]>>]
    /\ UNCHANGED <<environ, model_instance, loads, th, calls, pt, es>>

\* lines 428-434
GL_UpdateStats ==
    /\ h.op = "get_last_session_memory" /\ h.pc = "update_stats"
    /\ IF "_update_access_stats" \in MemoryToolsAttributes
       THEN \E ok \in BOOLEAN :
              /\ es' = UpdateAccessStats(h.memory_index, <<h.hits[1].id>>, h.timestamp, ok)
              /\ h' = [h EXCEPT !.pc = "done", !.bulk_calls = @ + 1, !.stats_failed = ~ok,
                                !.memory_ids = <<h.hits[1].id>>,
                                !.stats_index = h.memory_index,
                                !.response = [kind |-> "results", text |-> "",
                                              results |-> h.results]]
       ELSE /\ es' = es
            /\ h' = [h EXCEPT !.pc = "done",
                              !.response = TextResponse("error",
                                  "Error retrieving last session memory: "
                                      \o AttributeErrorText)]
    /\ UNCHANGED <<environ, model_instance, loads, th, calls, pt>>

\* ---- initialize_memory_system (lines 481-573)
MaxInits == 3

IM_Error == TextResponse("error", "Error initializing memory system: " \o StoreError)

\* lines 485-494: the index name and indices.exists.  The report of the call
\* before and the store as the call found it are kept for comparison.
IM_Begin ==
    /\ h.pc = "idle" /\ calls < MaxInits
    /\ calls' = calls + 1
    /\ LET st == [Started("initialize_memory_system", "exists", NoArgs, "")
                     EXCEPT !.memory_id = "", !.previous = h.previous, !.store_before = es]
       IN \/ h' = [st EXCEPT !.pc = "done", !.store_failed = TRUE, !.response = IM_Error]
          \/ h' = [st EXCEPT !.pc = IF st.memory_index \in DOMAIN es.mappings
                                    THEN "get_mapping" ELSE "create"]
    /\ UNCHANGED <<environ, model_instance, loads, th, pt, es>>

\* lines 495-556: indices.create with the settings and the mapping of the
\* vector field at get_config("embedding_dimension").
IM_Create ==
    /\ h.op = "initialize_memory_system" /\ h.pc = "create"
    /\ \E ok \in BOOLEAN :
         IF ok
         THEN /\ es' = [docs |-> [i \in (DOMAIN es.docs) \cup {h.memory_index} |->
                                    IF i = h.memory_index THEN <<>> ELSE es.docs[i]],
                        mappings |-> [i \in (DOMAIN es.mappings) \cup {h.memory_index} |->
                                        IF i = h.memory_index
                                        THEN VectorMapping(ConfigEmbeddingDimension)
                                        ELSE es.mappings[i]]]
              /\ h' = [h EXCEPT !.pc = "done", !.create_calls = @ + 1,
                                !.response = TextResponse("created",
                                    "Memory system initialized with new index: "
                                        \o h.memory_index)]
         ELSE /\ es' = es
              /\ h' = [h EXCEPT !.pc = "done", !.create_calls = @ + 1,
                                !.store_failed = TRUE, !.response = IM_Error]
    /\ UNCHANGED <<environ, model_instance, loads, th, calls, pt>>

\* Mutant of HasEmbedding: any field named embedding counts.
HasEmbedding_AnyType(mapping) == mapping.embedding # "absent"

\* lines 562-565: "embedding" in properties and its type is knn_vector
HasEmbedding(mapping) == mapping.embedding = "knn_vector"

\* lines 559-570: indices.get_mapping and the report on the embedding field
IM_GetMapping ==
    /\ h.op = "initialize_memory_system" /\ h.pc = "get_mapping"
    /\ \/ h' = [h EXCEPT !.pc = "done", !.store_failed = TRUE, !.response = IM_Error]
       \/ h' = [h EXCEPT
                  !.pc = "done",
                  !.response =
                      IF HasEmbedding(es.mappings[h.memory_index])
                      THEN TextResponse("already_valid",
                               "Memory system already initialized with proper vector capabilities. Index: "
                                   \o h.memory_index)
                      ELSE TextResponse("exists_invalid",
                               "Memory index " \o h.memory_index
                                   \o " exists but does not have vector search capabilities. Consider reindexing.")]
    /\ UNCHANGED <<environ, model_instance, loads, th, calls, pt, es>>

\* The handler returns its report, which the next call is compared with.
IM_Finish ==
    /\ h.op = "initialize_memory_system" /\ h.pc = "done"
    /\ h' = [IdleHandler EXCEPT !.previous = h.response]
    /\ UNCHANGED <<environ, model_instance, loads, th, calls, pt, es>>

\* --------------------------------------------------- tools specification
\* A memory as store_memory left it in the index.
SeedDocument(id, memory_type) ==
    [NoDocument EXCEPT
        !.memory_id = id, !.memory_type = memory_type, !.title = "seed " \o id,
        !.content = "text", !.confidence = 10, !.access_count = 1,
        !.metadata = DefaultMetadata("direct_creation"),
        !.embedding = Some([i \in 1..ConfigEmbeddingDimension |-> 1])]

\* A session of the legacy index, with its nested content.
LegacySession ==
    [SeedDocument("s0", "episodic") EXCEPT
        !.nested_content = Some([summary |-> "old", key_points |-> <<"k">>,
                                 next_steps |-> <<>>])]

SeedMemories ==
    [id \in {SeedIds[i] : i \in 1..Len(SeedIds)} |-> SeedDocument(id, "semantic")]

\* A session store_session_memory left in the memory index.
SeedSession ==
    [SeedDocument("session_seed", "episodic") EXCEPT
        !.session_id = Some("sess0"), !.key_points = Some(<<"k">>),
        !.next_steps = Some(<<>>), !.metadata = DefaultMetadata("session_summary")]

\* A store holding the memory index with the given documents and mapping,
\* and the legacy index with its documents.
SeedStore(primary, legacy, mapping) ==
    [docs |-> [i \in {ConfigDefaultMemoryIndex, ConfigLegacyMemoryIndex} |->
                 IF i = ConfigDefaultMemoryIndex THEN primary ELSE legacy],
     mappings |-> [i \in {ConfigDefaultMemoryIndex, ConfigLegacyMemoryIndex} |->
                     IF i = ConfigDefaultMemoryIndex THEN mapping ELSE DynamicMapping]]

\* The store when the server starts.  The memory index holds the seed
\* memories, and the last session is in the memory index, in the legacy
\* index, or nowhere; or there is no memory index yet.
SeedStores ==
    {SeedStore(SeedMemories, legacy, VectorMapping(ConfigEmbeddingDimension)) :
        legacy \in {<<>>, [id \in {"s0"} |-> LegacySession]}}
    \cup
    {SeedStore([id \in (DOMAIN SeedMemories) \cup {"session_seed"} |->
                   IF id = "session_seed" THEN SeedSession ELSE SeedMemories[id]],
               <<>>, VectorMapping(ConfigEmbeddingDimension)),
     [docs |-> [i \in {ConfigLegacyMemoryIndex} |-> <<>>],
      mappings |-> [i \in {ConfigLegacyMemoryIndex} |-> DynamicMapping]]}

StoreMemoryArgs ==
    {[NoArgs EXCEPT !.memory_type = Some("semantic"), !.title = "T", !.content = "c",
                    !.memory_id = i, !.metadata = m] :
        i \in {Absent, Some("m1")},
        m \in {Absent, Some([EmptyMetadata EXCEPT !.source = Some("import")])}}

StoreSessionArgs ==
    {[NoArgs EXCEPT !.session_id = "sess", !.title = "S", !.summary = "sum",
                    !.key_points = <<"k1", "k2">>, !.next_steps = <<"n1">>],
     [NoArgs EXCEPT !.session_id = "sess", !.title = "", !.summary = " "]}

ConnectionArgs ==
    {[NoArgs EXCEPT !.source_id = s, !.target_id = t, !.relationship_type = "causes",
                    !.description = "d", !.strength = g] :
        s \in {"m1", "zz"}, t \in {"m2", "yy"}, g \in {5, 15}}

\* A create_memory_connection call whose memory_id is given by the caller
\* and is the id of its source.
ConnectionIdArgs ==
    {[NoArgs EXCEPT !.source_id = "m1", !.target_id = "m2",
                    !.relationship_type = "causes", !.description = "d",
                    !.memory_id = Some("m1")]}

SearchArgs ==
    {[NoArgs EXCEPT !.query = q, !.memory_type = m, !.size = Some(n), !.min_score = 3] :
        q \in {"q", " "}, m \in {Absent, Some("episodic")}, n \in {0, 1, 10}}

Init ==
    /\ environ \in Environs
    /\ model_instance = NoModel
    /\ loads = 0
    /\ th = [t \in Threads |-> IdleFrame]
    /\ calls = 0
    /\ pt = IdlePT
    /\ es \in SeedStores
    /\ h = IdleHandler

Next ==
    \/ \E args \in StoreMemoryArgs : SM_Begin(args)
    \/ SM_Index
    \/ \E args \in StoreSessionArgs : SS_Begin(args)
    \/ SS_Index
    \/ \E args \in ConnectionArgs \cup ConnectionIdArgs : CC_Begin(args)
    \/ CC_ExistsSource
    \/ CC_ExistsTarget
    \/ CC_Check
    \/ CC_Index
    \/ \E args \in SearchArgs : SSM_Begin(args)
    \/ SSM_Search
    \/ SSM_Format
    \/ SSM_UpdateStats
    \/ GL_Begin
    \/ GL_SearchPrimary
    \/ GL_SearchLegacy
    \/ GL_Format
    \/ GL_UpdateStats
    \/ Finish
    \/ GE_CheckText(HandlerThread)
    \/ GE_GetModel(HandlerThread)
    \/ GEM_LoadOK(HandlerThread)
    \/ GEM_LoadFails(HandlerThread)
    \/ GE_EncodeOK(HandlerThread)
    \/ GE_EncodeFails(HandlerThread)

Spec == Init /\ [][Next]_vars

\* ------------------------------------------------- properties of the tools
WriteOps == {"store_memory", "store_session_memory", "create_memory_connection"}
ReadOps == {"semantic_search_memories", "get_last_session_memory"}

\* Both existence checks of create_memory_connection returned and at least
\* one endpoint is missing.
EndpointMissing ==
    /\ h.op = "create_memory_connection"
    /\ h.exists_returned = 2
    /\ (~h.source_exists \/ ~h.target_exists)

\* C1: when the existence check of create_memory_connection reports the
\* source, the target or both missing, the call writes no document and
\* computes no embedding, and its answer is the failure text that names the
\* source exactly when the source is missing and the target exactly when the
\* target is missing.
C1_MissingEndpointsReported ==
    EndpointMissing =>
        /\ h.index_calls = 0
        /\ h.document = NoDocument
        /\ th[HandlerThread] = IdleFrame
        /\ h.pc \in {"check", "done"}
        /\ h.pc = "done" =>
             /\ h.response.kind = "not_found"
             /\ Prefix(h.response.text, 27) = "Cannot create connection - "
             /\ Contains(h.response.text, "Source memory " \o h.args.source_id)
                    <=> ~h.source_exists
             /\ Contains(h.response.text, "Target memory " \o h.args.target_id)
                    <=> ~h.target_exists

\* C1 witness: the source is missing and the target exists, and the answer
\* names the source alone.
C1_Witness ==
    /\ EndpointMissing
    /\ h.pc = "done"
    /\ ~h.source_exists /\ h.target_exists
    /\ h.response.text = "Cannot create connection - Source memory zz not found"

\* A read whose search returned hits has given its answer.
ReadAnswered == h.op \in ReadOps /\ h.pc = "done" /\ h.hits # <<>>

\* C2: a read whose search returned hits answers with the formatted
\* results, whatever becomes of the access-statistics update.
C2_ReadReturnsResults ==
    ReadAnswered =>
        /\ h.response.kind = "results"
        /\ h.response.results = h.results

\* C3: the access-statistics update is detached from the read: when the
\* update is about to be attempted the read's answer is already given, and
\* the step that attempts the update does not touch it.
C3_AnswerBeforeStats ==
    [][(h.op \in ReadOps /\ h.pc = "update_stats")
           => (h.response.kind = "results" /\ h'.response = h.response)]_vars

\* The ids a read targets: those of its first five hits.
TargetedIds == {h.hits[i].id : i \in 1..Min(5, Len(h.hits))}

\* C4: the step of a read that updates the access statistics adds one to
\* access_count and sets last_accessed to the time of the call on each of
\* the first five hits, and leaves every other document as it was.
C4_TopFiveCounted ==
    [][(h.op \in ReadOps /\ h.pc = "update_stats" /\ h'.pc = "done")
           => \A id \in DOMAIN IndexDocs(h.memory_index) :
                 LET before == es.docs[h.memory_index][id]
                     after == es'.docs[h.memory_index][id]
                 IN IF id \in TargetedIds
                    THEN /\ after.access_count = before.access_count + 1
                         /\ after.last_accessed = h.timestamp
                    ELSE after = before]_vars

C27_UpdateWhereFound ==
    (h.op = "get_last_session_memory" /\ h.pc = "done" /\ h.hits # <<>>) =>
        /\ h.hits[1].index # h.memory_index =>
               /\ h.search_calls = 2
               /\ LastSessionResponses(h.memory_index) = {<<>>}
        /\ h.stats_index = h.hits[1].index

C30_OnlyConnectionWritten ==
    [][(/\ h.op = "create_memory_connection" /\ h.pc = "embedding"
        /\ h'.pc = "done" /\ h'.response.kind = "ok") =>
           LET before == IndexDocs(h.memory_index)
               after == es'.docs[h.memory_index]
           IN /\ DOMAIN after = (DOMAIN before) \cup {h.memory_id}
              /\ after[h.memory_id].memory_type = "associative"
              /\ after[h.args.source_id] = before[h.args.source_id]
              /\ after[h.args.target_id] = before[h.args.target_id]
              /\ \A id \in (DOMAIN before) \ {h.memory_id} : after[id] = before[id]]_vars

C17_UnitInterval ==
    \A id \in DOMAIN IndexDocs(ConfigDefaultMemoryIndex) :
        LET source == IndexDocs(ConfigDefaultMemoryIndex)[id]
        IN /\ source.confidence \in 0..10
           /\ Has(source.strength) => Val(source.strength) \in 0..10

\* C19: in every stored memory the metadata mirrors the usage counters:
\* metadata.access_count is access_count and metadata.confidence is
\* confidence.
C19_MetadataMirrors ==
    \A id \in DOMAIN IndexDocs(ConfigDefaultMemoryIndex) :
        LET source == IndexDocs(ConfigDefaultMemoryIndex)[id]
        IN /\ source.metadata.access_count = Some(source.access_count)
           /\ source.metadata.confidence = Some(source.confidence)

\* Every document of the memory index is stored under its memory_id.
StoredUnderOwnId ==
    \A id \in DOMAIN IndexDocs(ConfigDefaultMemoryIndex) :
        IndexDocs(ConfigDefaultMemoryIndex)[id].memory_id = id

\* A write tool answers with success: its document is the one document of
\* its id, and every other document of the index is as it was.
WriteKeepsOnePerId ==
    (h.pc # "done" /\ h'.pc = "done" /\ h'.op \in WriteOps /\ h'.response.kind = "ok") =>
        LET before == IndexDocs(h.memory_index)
            after == es'.docs[h.memory_index]
        IN /\ DOMAIN after = (DOMAIN before) \cup {h.memory_id}
           /\ after[h.memory_id] = h'.document
           /\ after[h.memory_id].memory_id = h.memory_id
           /\ \A id \in (DOMAIN before) \ {h.memory_id} : after[id] = before[id]

\* C20: the memory index holds at most one document per memory id, and a
\* store call given an id the index already holds replaces that document
\* instead of adding a second one.
C20_OneDocumentPerId == []StoredUnderOwnId /\ [][WriteKeepsOnePerId]_vars

\* store_memory was given the id of a stored memory and has replaced it.
C20_Witness ==
    /\ h.op = "store_memory" /\ h.pc = "done" /\ h.response.kind = "ok"
    /\ h.args.memory_id = Some("m1")
    /\ DOMAIN IndexDocs(h.memory_index) = {SeedIds[i] : i \in 1..Len(SeedIds)}
    /\ IndexDocs(h.memory_index)["m1"].title = h.args.title

\* C22: a call during which a store request of the primary path failed (an
\* exists, index or search request here; get-mapping and create-index in the
\* initialize_memory_system specification) has returned, and what it returned
\* is a failure result, not a success.
C22_StoreFailureReturned ==
    h.store_failed => (h.pc = "done" /\ h.response.kind = "error"
                       /\ Contains(h.response.text, StoreError))

\* C22 witness: the second existence check of create_memory_connection
\* failed and the tool returned the error text.
C22_Witness ==
    /\ h.op = "create_memory_connection" /\ h.store_failed
    /\ h.exists_returned = 1 /\ h.exists_calls = 2
    /\ h.response.text = "Error creating memory connection: " \o StoreError

\* The deployment's configured dimension is the dimension of the model it
\* configures.
ConsistentDeployment ==
    ConfigEmbeddingDimension = ModelDimension(SelectedModel(None))

\* C6: in a deployment whose configured dimension is its model's, every
\* document a write tool sent to the index carries an embedding of the
\* configured dimension.
C6_WrittenDimension ==
    (ConsistentDeployment /\ h.op \in WriteOps /\ h.index_calls > 0) =>
        /\ Has(h.document.embedding)
        /\ Len(Val(h.document.embedding)) = ConfigEmbeddingDimension

\* The embedding call of the running tool failed in the model.
EmbeddingFailed == h.embedding_failed /\ h.pc # "embedding"

\* C9: when loading or running the model fails, generate_embedding returns
\* instead of raising, and the tool goes on: a write tool sends its document
\* to the index with an all-zero embedding, and its answer depends on the
\* index call alone; semantic_search_memories sends its query with an
\* all-zero vector.
C9_FailureDegradesToZeroVector ==
    /\ \A t \in Threads :
         (th[t].op = "generate_embedding" /\ th[t].pc = "done") =>
             (~th[t].raised /\ th[t].result # <<>>)
    /\ EmbeddingFailed =>
         /\ h.op \in WriteOps =>
              /\ h.index_calls = 1
              /\ Has(h.document.embedding)
              /\ Val(h.document.embedding) # <<>>
              /\ IsZeroVector(Val(h.document.embedding))
              /\ h.response.kind = "ok" =>
                   /\ EsExists(h.memory_index, h.memory_id)
                   /\ es.docs[h.memory_index][h.memory_id] = h.document
         /\ h.op = "semantic_search_memories" =>
              /\ h.search_calls = 1
              /\ h.search_query.vector # <<>>
              /\ IsZeroVector(h.search_query.vector)
              /\ h.search_query.k = 2 * h.search_query.size

\* C9 witness: the model failed during store_memory and the memory is in
\* the index with its all-zero embedding.
C9_Witness ==
    /\ EmbeddingFailed
    /\ h.op = "store_memory"
    /\ h.response.kind = "ok"
    /\ EsExists(h.memory_index, h.memory_id)
    /\ IsZeroVector(Val(es.docs[h.memory_index][h.memory_id].embedding))

\* ---------------------------------------- text normaliser specification
\* One call of prepare_text_for_embedding on the document drawn by InitText.
PrepareText ==
    /\ ~pt.done
    /\ pt' = [pt EXCEPT !.done = TRUE, !.out = prepare_text_for_embedding(pt.document)]
    /\ UNCHANGED <<environ, model_instance, loads, th, calls, es, h>>

\* The documents prepare_text_for_embedding is tried on.
TextTitles == {Absent, Some(""), Some("A"), Some(" A")}
\* Texts of JSON objects, one with leading whitespace, and a text that starts
\* like an object and is no JSON.
JsonTexts ==
    {"{\"a\": \"x\", \"n\": 1, \"b\": \"y\"}", " {\"b\":\"y\",\"a\":\"x\"}",
     "{\"a\": \"\", \"t\": true}", "{\"a\": \"x\""}
TextContents ==
    {NoContent, StrContent(""), StrContent("P q")}
    \cup {StrContent(text) : text \in JsonTexts}
    \cup {DictContent(s, k, d) :
            s \in {Absent, Some(""), Some("B")},
            k \in {NoKeyPoints, ListKeyPoints(<<>>), ListKeyPoints(<<"C", "D">>),
                   ListKeyPoints(<<"", "D">>), StrKeyPoints("K")},
            d \in {Absent, Some("E ")}}
TextTags == {NoTags, ListTags(<<>>), ListTags(<<"x", "y">>), StrTags("z")}
TextDocuments ==
    {[memory_id |-> i, memory_type |-> m, title |-> t, content |-> c, tags |-> g] :
        i \in {Absent, Some("m1")}, m \in {Absent, Some("semantic")},
        t \in TextTitles, c \in TextContents, g \in TextTags}

InitText ==
    /\ environ = [EMBEDDING_MODEL |-> None, EMBEDDING_DIMENSION |-> None,
                  MEMORY_INDEX |-> None, VECTOR_SEARCH_WEIGHT |-> None,
                  KEYWORD_SEARCH_WEIGHT |-> None]
    /\ model_instance = NoModel
    /\ loads = 0
    /\ th = [t \in Threads |-> IdleFrame]
    /\ calls = 0
    /\ pt \in [document : TextDocuments, done : {FALSE}, out : {""}]
    /\ es = [docs |-> <<>>, mappings |-> <<>>]
    /\ h = IdleHandler

NextText == PrepareText

SpecText == InitText /\ [][NextText]_vars

\* The parts of a document in the documented order: the title; then the
\* summary, the key points in list order and the description of a
\* structured content, or a string content as it is; then the tags joined by
\* spaces.  Empty and absent fields give no part.
NonEmpty(o) == IF Has(o) /\ Val(o) # "" THEN <<Val(o)>> ELSE <<>>
ExpectedParts(d) ==
    NonEmpty(d.title)
    \o (CASE d.content.kind = "dict" ->
                NonEmpty(d.content.summary)
                \o (CASE d.content.key_points_kind = "list" -> d.content.key_points
                      [] d.content.key_points_kind = "str" ->
                            NonEmpty(Some(d.content.key_points_str))
                      [] OTHER -> <<>>)
                \o NonEmpty(d.content.description)
          [] d.content.kind = "str" -> NonEmpty(Some(d.content.str))
          [] OTHER -> <<>>)
    \o (CASE d.tags.kind = "list" /\ d.tags.list # <<>> -> <<Join(" ", d.tags.list)>>
          [] d.tags.kind = "str" -> NonEmpty(Some(d.tags.str))
          [] OTHER -> <<>>)

\* C10: prepare_text_for_embedding returns the parts of the document in the
\* documented order, separated by single spaces (outer whitespace trimmed),
\* whenever the document has a non-blank part.
C10_PartsInOrder ==
    (pt.done /\ Strip(Join(" ", ExpectedParts(pt.document))) # "")
        => pt.out = Strip(Join(" ", ExpectedParts(pt.document)))

\* The tags part of a document.
ExpectedTags(d) ==
    CASE d.tags.kind = "list" /\ d.tags.list # <<>> -> <<Join(" ", d.tags.list)>>
      [] d.tags.kind = "str" -> NonEmpty(Some(d.tags.str))
      [] OTHER -> <<>>

\* The content of the document is a string that json.loads decodes into an
\* object.
IsJsonObjectText(d) == d.content.kind = "str" /\ JsonLoadsObject(d.content.str).ok

\* C11: when the content is a string that parses as JSON into an object, the
\* text has, between the title and the tags, the object's non-empty string
\* values in the object's order, and not the raw JSON text.
C11_JsonValuesAppended ==
    (pt.done /\ IsJsonObjectText(pt.document)) =>
        LET values == JsonStringValues(JsonLoadsObject(pt.document.content.str).items)
            parts == NonEmpty(pt.document.title) \o values \o ExpectedTags(pt.document)
        IN /\ Strip(Join(" ", parts)) # "" => pt.out = Strip(Join(" ", parts))
           /\ ~Contains(pt.out, "{")

\* C10 witness: title, summary, two key points, description and two tags
\* come out in that order.
C10_Witness ==
    /\ pt.done
    /\ pt.document.title = Some("A")
    /\ pt.document.content = DictContent(Some("B"), ListKeyPoints(<<"C", "D">>), Some("E "))
    /\ pt.document.tags = ListTags(<<"x", "y">>)
    /\ pt.out = "A B C D E  x y"

\* ----------------------------------------------- embedding specification
\* Texts handed to generate_embedding: empty, blank, and non-blank.
EmbedTexts == {"", " ", " \t", "a", " a b "}

\* A model object a caller constructed itself and passes as `model`.
CallerModels == {[name |-> "all-mpnet-base-v2", dim |-> 768, serial |-> 0]}

InitEmbed ==
    /\ environ \in Environs
    /\ model_instance = NoModel
    /\ loads = 0
    /\ th = [t \in Threads |-> IdleFrame]
    /\ calls = 0
    /\ pt = IdlePT
    /\ es = [docs |-> <<>>, mappings |-> <<>>]
    /\ h = IdleHandler

NextEmbed ==
    \/ \E t \in Threads, text \in EmbedTexts, model \in {NoModel} \cup CallerModels :
         CallGenerateEmbedding(t, text, model)
    \/ \E t \in Threads, name \in {None} \cup ModelNames : CallGetEmbeddingModel(t, name)
    \/ \E t \in Threads : GE_CheckText(t)
    \/ \E t \in Threads : GE_GetModel(t)
    \/ \E t \in Threads : GEM_CheckInstance(t)
    \/ \E t \in Threads : GEM_LoadOK(t)
    \/ \E t \in Threads : GEM_LoadFails(t)
    \/ \E t \in Threads : GE_EncodeOK(t)
    \/ \E t \in Threads : GE_EncodeFails(t)
    \/ \E t \in Threads : Return(t)

SpecEmbed == InitEmbed /\ [][NextEmbed]_vars

\* A finished generate_embedding call of thread t.
GEDone(t) == th[t].op = "generate_embedding" /\ th[t].pc = "done"

\* C5: across any interleaving of generate_embedding / get_embedding_model
\* calls the embedding model is constructed at most once, and every call
\* that obtains a model obtains that one instance.
C5_LoadedOnce ==
    /\ loads <= 1
    /\ \A t \in Threads :
         /\ (GEDone(t) /\ th[t].encoded /\ th[t].model = NoModel)
                => th[t].embedding_model.serial = 1
         /\ (th[t].op = "get_embedding_model" /\ th[t].pc = "done" /\ ~th[t].raised)
                => th[t].returned.serial = 1

\* C29: the process-wide model handle changes only from unset to a loaded
\* model: a loaded handle is never replaced or cleared, and a step that loads
\* nothing (a failed load among them) leaves the handle as it was.
C29_HandleSetOnce ==
    [][model_instance' # model_instance
           => (model_instance = NoModel /\ model_instance' # NoModel)]_vars

\* C7: for empty or whitespace-only text generate_embedding returns the
\* all-zero vector of the default dimension, without loading or invoking a
\* model, whatever model is loaded or passed.
C7_BlankIsDefaultZero ==
    \A t \in Threads :
        (GEDone(t) /\ Strip(th[t].text) = "")
            => /\ th[t].result = ZeroVector(DEFAULT_DIMENSION)
               /\ ~th[t].loaded
               /\ ~th[t].encoded
               /\ th[t].embedding_model = NoModel

\* C7 witness: a blank, non-empty text was answered while the loaded model
\* has another dimension than the default.
C7_Witness ==
    \E t \in Threads :
        /\ GEDone(t)
        /\ th[t].text = " \t"
        /\ model_instance # NoModel
        /\ model_instance.dim # DEFAULT_DIMENSION

\* C8: after a load or encode failure the result is the all-zero vector
\* whose length is the dimension of the model the call had obtained (passed
\* or process-wide), and the default dimension when it had none.  Calls in
\* which reading the model's dimension itself raised are left aside.
C8_FailureDimension ==
    \A t \in Threads :
        (GEDone(t) /\ th[t].failed /\ ~th[t].dimension_error)
            => /\ IsZeroVector(th[t].result)
               /\ Len(th[t].result) =
                     IF th[t].embedding_model # NoModel
                     THEN th[t].embedding_model.dim
                     ELSE DEFAULT_DIMENSION

\* ------------------------------------------- query builder specification
\* The calls of get_hybrid_search_query: size absent, zero or a number; the
\* kind absent, empty or given; time_range absent, empty, or with either
\* bound or both.
QueryArgs ==
    {[NoArgs EXCEPT !.query = "q", !.size = n, !.memory_type = m, !.time_range = r] :
        n \in {Absent, Some(0), Some(1), Some(5), Some(10), Some(50)},
        m \in {Absent, Some(""), Some("episodic"), Some("semantic")},
        r \in {NoTimeRange} \cup
              {[kind |-> "dict", gte |-> g, lte |-> l] :
                   g \in {Absent, Some(2)}, l \in {Absent, Some(4)}}}

InitQuery ==
    /\ environ = [EMBEDDING_MODEL |-> None, EMBEDDING_DIMENSION |-> None,
                  MEMORY_INDEX |-> None, VECTOR_SEARCH_WEIGHT |-> None,
                  KEYWORD_SEARCH_WEIGHT |-> None]
    /\ model_instance = NoModel
    /\ loads = 0
    /\ th = [t \in Threads |-> IdleFrame]
    /\ calls = 0
    /\ pt = IdlePT
    /\ es = [docs |-> <<>>, mappings |-> <<>>]
    /\ h \in {[IdleHandler EXCEPT !.op = "get_hybrid_search_query", !.pc = "call",
                                  !.args = a] : a \in QueryArgs}

\* One call of get_hybrid_search_query on the arguments drawn by InitQuery.
BuildQuery ==
    /\ h.op = "get_hybrid_search_query" /\ h.pc = "call"
    /\ h' = [h EXCEPT !.pc = "done",
                      !.search_query =
                          get_hybrid_search_query(h.args.query, <<1, 0, 1>>, h.args.size,
                                                  h.args.memory_type, h.args.time_range)]
    /\ UNCHANGED <<environ, model_instance, loads, th, calls, pt, es>>

SpecQuery == InitQuery /\ [][BuildQuery]_vars

QueryBuilt == h.op = "get_hybrid_search_query" /\ h.pc = "done"

\* C12: for every size passed the query requests size results and
\* k = 2 * size candidates, and with no size passed 10 results and k = 20.
C12_SizeAndK ==
    QueryBuilt =>
        LET size == IF Has(h.args.size) THEN Val(h.args.size) ELSE 10
        IN h.search_query.size = size /\ h.search_query.k = 2 * size

\* The filter clauses of the built query of one sort.
ClausesOf(sort) == SelectSeq(h.search_query.filter, LAMBDA f : f.clause = sort)

\* C13: the query has a term clause on the memory kind exactly when a
\* (non-empty) kind is given, with that kind as its value; it has a range
\* clause on created_at exactly when time_range holds at least one bound, and
\* the clause carries the lower bound and the upper bound as given, each
\* present or absent on its own; with neither there is no filter clause.
C13_FiltersAsGiven ==
    QueryBuilt =>
        LET kind == h.args.memory_type
            range == h.args.time_range
            kindGiven == Has(kind) /\ Val(kind) # ""
            bounded == range.kind = "dict" /\ (Has(range.gte) \/ Has(range.lte))
        IN /\ Len(ClausesOf("term")) = (IF kindGiven THEN 1 ELSE 0)
           /\ kindGiven => ClausesOf("term")[1].value = Val(kind)
           /\ Len(ClausesOf("range")) = (IF bounded THEN 1 ELSE 0)
           /\ bounded => /\ ClausesOf("range")[1].gte = range.gte
                         /\ ClausesOf("range")[1].lte = range.lte
           /\ Len(h.search_query.filter) = Len(ClausesOf("term")) + Len(ClausesOf("range"))
           /\ (~kindGiven /\ ~bounded) => h.search_query.filter = <<>>

\* C13 witness: a kind and a time range with a lower bound only were given.
C13_Witness ==
    /\ QueryBuilt
    /\ h.args.memory_type = Some("episodic")
    /\ h.args.time_range = [kind |-> "dict", gte |-> Some(2), lte |-> Absent]
    /\ Len(h.search_query.filter) = 2

\* ------------------------------ initialize_memory_system specification
\* Stores whose memory index has no vector field: the index was created by a
\* first document, or its mapping has no embedding field at all.
NoVectorStores ==
    {SeedStore(SeedMemories, <<>>, DynamicMapping),
     SeedStore(<<>>, <<>>, [embedding |-> "absent", dimension |-> 0])}

InitInit ==
    /\ environ \in Environs
    /\ model_instance = NoModel
    /\ loads = 0
    /\ th = [t \in Threads |-> IdleFrame]
    /\ calls = 0
    /\ pt = IdlePT
    /\ es \in SeedStores \cup NoVectorStores
    /\ h = IdleHandler

SpecInit == InitInit /\ [][IM_Begin \/ IM_Create \/ IM_GetMapping \/ IM_Finish]_vars

\* A call of initialize_memory_system has given a report other than the
\* error text of a failed store request.
InitReported ==
    h.op = "initialize_memory_system" /\ h.pc = "done" /\ h.response.kind # "error"

\* C15: when the memory index did not exist the call creates it once, empty,
\* with an embedding field of type knn_vector at the configured dimension,
\* and reports it created; when the index existed the call reports
\* already-valid if the mapping has an embedding field of type knn_vector and
\* exists-but-invalid otherwise, creates nothing and leaves the store as it
\* was.
C15_CreateOrInspect ==
    InitReported =>
        IF h.memory_index \notin DOMAIN h.store_before.mappings
        THEN /\ h.response.kind = "created"
             /\ h.create_calls = 1
             /\ es.mappings[h.memory_index] =
                    [embedding |-> "knn_vector", dimension |-> ConfigEmbeddingDimension]
             /\ es.docs[h.memory_index] = <<>>
             /\ \A i \in DOMAIN h.store_before.mappings :
                    /\ es.mappings[i] = h.store_before.mappings[i]
                    /\ es.docs[i] = h.store_before.docs[i]
        ELSE /\ h.create_calls = 0
             /\ es = h.store_before
             /\ h.response.kind =
                    IF h.store_before.mappings[h.memory_index].embedding = "knn_vector"
                    THEN "already_valid" ELSE "exists_invalid"

\* C15 witness: the index existed with an embedding field that is no
\* knn_vector, and the call reported it invalid.
C15_Witness ==
    /\ InitReported
    /\ h.memory_index \in DOMAIN h.store_before.mappings
    /\ h.store_before.mappings[h.memory_index].embedding = "float"
    /\ h.response.kind = "exists_invalid"

\* C16: a call that follows a call which reported already-valid gives the
\* same report and changes nothing in the store, and a call that follows a
\* call which created the index reports already-valid and creates nothing.
C16_Idempotent ==
    (InitReported /\ h.previous.kind \in {"already_valid", "created"}) =>
        /\ h.response.kind = "already_valid"
        /\ h.previous.kind = "already_valid" => h.response = h.previous
        /\ h.create_calls = 0
        /\ es = h.store_before

\* C16 witness: the second of two calls on a valid index has reported.
C16_Witness ==
    /\ InitReported
    /\ h.previous.kind = "already_valid"
    /\ h.response = h.previous
    /\ calls = 2

\* ------------------------------------- store and retrieve specification
\* tools/document.py, get_document(index, id), called with the index and the
\* id of the store_memory call that has just answered; args keeps the
\* arguments of that store call for comparison.
GD_Begin ==
    /\ h.op = "store_memory" /\ h.pc = "done" /\ h.response.kind = "ok"
    /\ h' = [IdleHandler EXCEPT !.op = "get_document", !.pc = "get", !.args = h.args,
                                !.memory_index = h.memory_index,
                                !.memory_id = h.memory_id, !.previous = h.response]
    /\ UNCHANGED <<environ, model_instance, loads, th, calls, pt, es>>

\* document.py lines 150-155: es_client.get returns the stored _source, or
\* raises (a failed request, or no document under the id).
GD_Get ==
    /\ h.op = "get_document" /\ h.pc = "get"
    /\ \/ h' = [h EXCEPT !.pc = "done", !.store_failed = TRUE,
                         !.response = TextResponse("error", "Error: " \o StoreError)]
       \/ /\ EsExists(h.memory_index, h.memory_id)
          /\ h' = [h EXCEPT !.pc = "done",
                            !.response = [kind |-> "document", text |-> "",
                                          results |-> <<es.docs[h.memory_index][h.memory_id]>>]]
    /\ UNCHANGED <<environ, model_instance, loads, th, calls, pt, es>>

\* The store_memory calls that are followed by a retrieval.
RoundTripArgs ==
    {[NoArgs EXCEPT !.memory_type = Some("semantic"), !.title = "T", !.content = c,
                    !.memory_id = i, !.tags = g] :
        c \in {"c", " c d "}, i \in {Absent, Some("m1")},
        g \in {Absent, Some(<<"x", "y">>)}}

SpecRoundTrip ==
    /\ Init
    /\ [][\/ \E args \in RoundTripArgs : SM_Begin(args)
          \/ GE_CheckText(HandlerThread)
          \/ GE_GetModel(HandlerThread)
          \/ GEM_LoadOK(HandlerThread)
          \/ GEM_LoadFails(HandlerThread)
          \/ GE_EncodeOK(HandlerThread)
          \/ GE_EncodeFails(HandlerThread)
          \/ SM_Index
          \/ GD_Begin
          \/ GD_Get]_vars

\* C18: the document retrieved by the id of a store_memory call has the
\* title, the content and the tags of that call, and an embedding of the
\* configured dimension.
C18_RoundTrip ==
    (h.op = "get_document" /\ h.pc = "done" /\ h.response.kind = "document") =>
        LET source == h.response.results[1]
        IN /\ source.title = h.args.title
           /\ source.content = h.args.content
           /\ source.tags = (IF Has(h.args.tags) THEN Val(h.args.tags) ELSE <<>>)
           /\ Has(source.embedding)
           /\ Len(Val(source.embedding)) = ConfigEmbeddingDimension

\* ------------------------------------------------- get_config specification
\* The environments get_config reads: each numeric override unset, valid,
\* or not a number of its type.
ConfigEnvirons ==
    {[EMBEDDING_MODEL |-> None, EMBEDDING_DIMENSION |-> d, MEMORY_INDEX |-> None,
      VECTOR_SEARCH_WEIGHT |-> v, KEYWORD_SEARCH_WEIGHT |-> k] :
        d \in {None, "768", " 512 ", "-1", "abc", "", "7.5"},
        v \in {None, "0.5", "1", " .9", "x", "0,5", "1.2.3"},
        k \in {None, "0.5", "high"}}

InitConfig ==
    /\ environ \in ConfigEnvirons
    /\ model_instance = NoModel
    /\ loads = 0
    /\ th = [t \in Threads |-> IdleFrame]
    /\ calls = 0
    /\ pt = IdlePT
    /\ es = [docs |-> <<>>, mappings |-> <<>>]
    /\ h = IdleHandler

\* One call get_config(key); a ValueError leaving it would be the kind
\* "raised".
GetConfig(key) ==
    /\ h.op = "none"
    /\ h' = [h EXCEPT !.op = "get_config", !.pc = "done", !.args = [NoArgs EXCEPT !.key = key],
                      !.response = [kind |-> IF get_config(key).raised THEN "raised"
                                             ELSE "value",
                                    text |-> "", results |-> <<get_config(key).value>>]]
    /\ UNCHANGED <<environ, model_instance, loads, th, calls, pt, es>>

SpecConfig ==
    /\ InitConfig
    /\ [][\E key \in {"embedding_dimension", "vector_search_weight",
                      "keyword_search_weight", "default_search_size"} :
              GetConfig(key)]_vars

\* The numbers the overrides of ConfigEnvirons denote; an override outside
\* these is not a number of its setting's type.
ValidInteger == [s \in {"768", " 512 ", "-1"} |->
                    IF s = "768" THEN 768 ELSE IF s = " 512 " THEN 512 ELSE 0 - 1]
ValidFloat == [s \in {"0.5", "1", " .9"} |->
                    IF s = "0.5" THEN 5 ELSE IF s = "1" THEN 10 ELSE 9]

\* The value of a setting: its valid override, else its default.
OverrideOrDefault(override, valid, default) ==
    IF override # None /\ override \in DOMAIN valid THEN valid[override] ELSE default

\* C21: get_config returns the valid override of an integer or float setting
\* in place of the default, ignores an override that cannot be parsed and
\* returns the default, and never raises.
C21_OverrideOrDefault ==
    (h.op = "get_config" /\ h.pc = "done") =>
        /\ h.response.kind = "value"
        /\ h.args.key = "embedding_dimension" =>
               h.response.results[1] =
                   OverrideOrDefault(environ.EMBEDDING_DIMENSION, ValidInteger, 384)
        /\ h.args.key = "vector_search_weight" =>
               h.response.results[1] =
                   OverrideOrDefault(environ.VECTOR_SEARCH_WEIGHT, ValidFloat, 7)
        /\ h.args.key = "keyword_search_weight" =>
               h.response.results[1] =
                   OverrideOrDefault(environ.KEYWORD_SEARCH_WEIGHT, ValidFloat, 3)

\* C21 witness: the integer override cannot be parsed and get_config
\* returned the default dimension.
C21_Witness ==
    /\ h.op = "get_config" /\ h.pc = "done"
    /\ h.args.key = "embedding_dimension" /\ environ.EMBEDDING_DIMENSION = "abc"
    /\ h.response = [kind |-> "value", text |-> "", results |-> <<384>>]

\* ------------------------------------------ configure_indices specification
\* tools/index.py, configure_indices (lines 91-190).
\* The files a configuration directory may hold: one that is not YAML, one
\* whose document is a list, one without index_name, and three index
\* configurations, two of them for the same index.
ConfigFiles ==
    {[name |-> "bad.yaml", content |-> "unparsable", index_name |-> ""],
     [name |-> "list.yml", content |-> "list", index_name |-> ""],
     [name |-> "noname.yaml", content |-> "no_index_name", index_name |-> ""],
     [name |-> "a.yaml", content |-> "config", index_name |-> "idx_a"],
     [name |-> "a2.yml", content |-> "config", index_name |-> "idx_a"],
     [name |-> "b.yaml", content |-> "config", index_name |-> "idx_b"]}

\* What config_path.exists() and the two globs find: no directory, or a
\* directory with up to MaxFiles files, each listed once.
ConfigDirs ==
    {[exists |-> FALSE, files |-> <<>>]}
    \cup {[exists |-> TRUE, files |-> fs] :
            fs \in {f \in UNION {[1..n -> ConfigFiles] : n \in 0..MaxFiles} :
                      \A i, j \in DOMAIN f : f[i].name = f[j].name => i = j}}

InitConfigure ==
    /\ environ = [EMBEDDING_MODEL |-> None, EMBEDDING_DIMENSION |-> None,
                  MEMORY_INDEX |-> None, VECTOR_SEARCH_WEIGHT |-> None,
                  KEYWORD_SEARCH_WEIGHT |-> None]
    /\ model_instance = NoModel
    /\ loads = 0
    /\ th = [t \in Threads |-> IdleFrame]
    /\ calls = 0
    /\ pt = IdlePT
    /\ es \in {[docs |-> [i \in present |-> <<>>],
                mappings |-> [i \in present |-> DynamicMapping]] :
                  present \in {{}, {"idx_a"}}}
    /\ h \in {[IdleHandler EXCEPT !.op = "configure_indices", !.pc = "scan",
                                  !.args = [NoArgs EXCEPT !.config_dir = d]] :
                 d \in ConfigDirs}

\* lines 112-128: the directory test, the scan, and the two early returns.
CI_Scan ==
    /\ h.op = "configure_indices" /\ h.pc = "scan"
    /\ h' = IF ~h.args.config_dir.exists
            THEN [h EXCEPT !.pc = "done",
                           !.response = TextResponse("error",
                               "Error: Configuration directory does not exist")]
            ELSE IF Len(h.args.config_dir.files) = 0
            THEN [h EXCEPT !.pc = "done", !.yaml_files = <<>>,
                           !.response = TextResponse("empty",
                               "No index configuration files found")]
            ELSE [h EXCEPT !.pc = "load", !.yaml_files = h.args.config_dir.files,
                           !.file_no = 1,
                           !.report = [@ EXCEPT !.scanned = Len(h.args.config_dir.files)]]
    /\ UNCHANGED <<environ, model_instance, loads, th, calls, pt, es>>

\* Mutant of FileError: a failing file ends the loop.
FileError_Stops(st, text) ==
    [st EXCEPT !.pc = "load", !.file_no = Len(st.yaml_files) + 1,
               !.report = [@ EXCEPT !.errors = @ + 1,
                                    !.details = Append(@, [file |-> st.yaml_files[st.file_no].name,
                                                           index |-> "", action |-> "",
                                                           status |-> "error",
                                                           error |-> text])]]

\* lines 176-183: the except branch of one file; the loop goes on.
FileError(st, text) ==
    [st EXCEPT !.pc = "load", !.file_no = @ + 1,
               !.report = [@ EXCEPT !.errors = @ + 1,
                                    !.details = Append(@, [file |-> st.yaml_files[st.file_no].name,
                                                           index |-> "", action |-> "",
                                                           status |-> "error",
                                                           error |-> text])]]

\* lines 169-174: the detail of a file whose index was created or skipped.
FileDone(st, action, status) ==
    [st EXCEPT !.pc = "load", !.file_no = @ + 1,
               !.report = [@ EXCEPT
                   !.created = IF action = "created" THEN @ + 1 ELSE @,
                   !.already_exists = IF action = "skipped" THEN @ + 1 ELSE @,
                   !.details = Append(@, [file |-> st.yaml_files[st.file_no].name,
                                          index |-> st.index_name, action |-> action,
                                          status |-> status, error |-> ""])]]

\* lines 131-150: the file is loaded and validated.
CI_Load ==
    /\ h.op = "configure_indices" /\ h.pc = "load"
    /\ h.file_no <= Len(h.yaml_files)
    /\ LET file == h.yaml_files[h.file_no]
       IN h' = IF file.content = "unparsable" THEN FileError(h, "YAMLError")
               ELSE IF file.content = "list"
               THEN FileError(h, "Invalid configuration format in " \o file.name)
               ELSE IF file.content = "no_index_name"
               THEN FileError(h, "Missing 'index_name' in " \o file.name)
               ELSE [h EXCEPT !.pc = "exists", !.index_name = file.index_name]
    /\ UNCHANGED <<environ, model_instance, loads, th, calls, pt, es>>

\* Mutant of CI_Exists: the answer of the existence check is not used and
\* the index is created in any case.
CI_Exists_AlwaysCreate ==
    /\ h.op = "configure_indices" /\ h.pc = "exists"
    /\ \E ok \in BOOLEAN :
         LET index_exists == h.index_name \in DOMAIN es.mappings
             asked == [h EXCEPT !.exists_calls = @ + 1,
                                !.requests = Append(@, [request |-> "exists",
                                                        index |-> h.index_name,
                                                        answer |-> IF ~ok THEN "raised"
                                                                   ELSE IF index_exists
                                                                   THEN "present"
                                                                   ELSE "absent"])]
         IN h' = IF ~ok THEN FileError(asked, StoreError)
                 ELSE [asked EXCEPT !.pc = "create"]
    /\ UNCHANGED <<environ, model_instance, loads, th, calls, pt, es>>

\* lines 152-168: indices.exists; an index that exists is skipped.
CI_Exists ==
    /\ h.op = "configure_indices" /\ h.pc = "exists"
    /\ \E ok \in BOOLEAN :
         LET index_exists == h.index_name \in DOMAIN es.mappings
             asked == [h EXCEPT !.exists_calls = @ + 1,
                                !.requests = Append(@, [request |-> "exists",
                                                        index |-> h.index_name,
                                                        answer |-> IF ~ok THEN "raised"
                                                                   ELSE IF index_exists
                                                                   THEN "present"
                                                                   ELSE "absent"])]
         IN h' = IF ~ok THEN FileError(asked, StoreError)
                 ELSE IF index_exists THEN FileDone(asked, "skipped", "already_exists")
                 ELSE [asked EXCEPT !.pc = "create"]
    /\ UNCHANGED <<environ, model_instance, loads, th, calls, pt, es>>

\* lines 161-166: indices.create for an index reported absent.
CI_Create ==
    /\ h.op = "configure_indices" /\ h.pc = "create"
    /\ \E ok \in BOOLEAN :
         LET asked == [h EXCEPT !.create_calls = @ + 1,
                                !.requests = Append(@, [request |-> "create",
                                                        index |-> h.index_name,
                                                        answer |-> IF ok THEN "created"
                                                                   ELSE "raised"])]
         IN /\ h' = IF ok THEN FileDone(asked, "created", "success")
                    ELSE FileError(asked, StoreError)
            /\ es' = IF ok
                     THEN [docs |-> [i \in (DOMAIN es.docs) \cup {h.index_name} |->
                                       IF i = h.index_name THEN <<>> ELSE es.docs[i]],
                           mappings |-> [i \in (DOMAIN es.mappings) \cup {h.index_name} |->
                                           IF i = h.index_name THEN DynamicMapping
                                           ELSE es.mappings[i]]]
                     ELSE es
    /\ UNCHANGED <<environ, model_instance, loads, th, calls, pt>>

\* line 185: the loop is over and the results are returned.
CI_Return ==
    /\ h.op = "configure_indices" /\ h.pc = "load"
    /\ h.file_no > Len(h.yaml_files)
    /\ h' = [h EXCEPT !.pc = "done",
                      !.response = [kind |-> "report", text |-> "",
                                    results |-> <<h.report>>]]
    /\ UNCHANGED <<environ, model_instance, loads, th, calls, pt, es>>

SpecConfigure ==
    InitConfigure /\ [][CI_Scan \/ CI_Load \/ CI_Exists \/ CI_Create \/ CI_Return]_vars

\* configure_indices has returned the results of a directory with files.
Configured ==
    h.op = "configure_indices" /\ h.pc = "done" /\ h.response.kind = "report"

\* C23: on a directory with at least one YAML file, scanned is the number
\* of files, details holds one entry per file, in the order of the files,
\* each entry is exactly one of created, skipped or error, and the three
\* counters count these entries, so that they add up to scanned.
C23_EveryFileClassified ==
    Configured =>
        LET report == h.response.results[1]
            files == h.args.config_dir.files
            count(status) == Cardinality({i \in DOMAIN report.details :
                                             report.details[i].status = status})
        IN /\ report.scanned = Len(files)
           /\ Len(report.details) = Len(files)
           /\ \A i \in DOMAIN files :
                /\ report.details[i].file = files[i].name
                /\ report.details[i].status \in {"success", "already_exists", "error"}
           /\ report.created = count("success")
           /\ report.already_exists = count("already_exists")
           /\ report.errors = count("error")
           /\ report.scanned = report.created + report.already_exists + report.errors

\* C23 witness: the first file is no configuration, and the second file's
\* index was still created.
C23_Witness ==
    /\ Configured
    /\ Len(h.report.details) = 2
    /\ h.report.details[1].status = "error"
    /\ h.report.details[2].status = "success"

\* The valid configurations among the files of the directory.
ValidFiles == SelectSeq(h.args.config_dir.files, LAMBDA f : f.content = "config")

\* C24: a create request is issued exactly for an index its existence check
\* has just reported absent: every create follows such a check, every such
\* check is followed by the create, and no request at all is issued for a
\* nonexistent directory, an empty directory or an invalid file.
C24_CreateIffAbsent ==
    h.op = "configure_indices" =>
        /\ \A i \in DOMAIN h.requests :
             /\ h.requests[i].request = "create" =>
                    /\ i > 1
                    /\ h.requests[i - 1] = [request |-> "exists",
                                            index |-> h.requests[i].index,
                                            answer |-> "absent"]
             /\ (h.requests[i].request = "exists" /\ h.requests[i].answer = "absent") =>
                    IF i < Len(h.requests)
                    THEN /\ h.requests[i + 1].request = "create"
                         /\ h.requests[i + 1].index = h.requests[i].index
                    ELSE h.pc = "create"
        /\ h.pc = "done" =>
               /\ Len(SelectSeq(h.requests, LAMBDA r : r.request = "exists"))
                      = Len(ValidFiles)
               /\ h.response.kind # "report" => h.requests = <<>>
        /\ Len(h.requests) = h.exists_calls + h.create_calls

\* C24 witness: two files configure the same index; the first created it
\* and the second was skipped without a create.
C24_Witness ==
    /\ Configured
    /\ Len(h.requests) = 3
    /\ h.requests[2].answer = "created"
    /\ h.requests[3] = [request |-> "exists", index |-> "idx_a", answer |-> "present"]

\* ------------------------------- connection and deletion specification
\* tools/document.py, delete_document(index, id) on the memory index (lines
\* 46-61), served for another client of the same store while a
\* create_memory_connection call is between two of its requests.  The ids
\* deleted while a call runs are kept in the call's frame for comparison.
DD_Delete(id) ==
    /\ EsExists(ConfigDefaultMemoryIndex, id)
    /\ es' = [es EXCEPT !.docs[ConfigDefaultMemoryIndex] =
                 [x \in (DOMAIN @) \ {id} |-> @[x]]]
    /\ h' = IF h.pc \in {"idle", "done"} THEN h ELSE [h EXCEPT !.deleted = @ \cup {id}]
    /\ UNCHANGED <<environ, model_instance, loads, th, calls, pt>>

SpecRace ==
    /\ Init
    /\ [][\/ \E args \in ConnectionArgs : CC_Begin(args)
          \/ CC_ExistsSource
          \/ CC_ExistsTarget
          \/ CC_Check
          \/ GE_CheckText(HandlerThread)
          \/ GE_GetModel(HandlerThread)
          \/ GEM_LoadOK(HandlerThread)
          \/ GEM_LoadFails(HandlerThread)
          \/ GE_EncodeOK(HandlerThread)
          \/ GE_EncodeFails(HandlerThread)
          \/ CC_Index
          \/ \E id \in {"m1", "m2"} : DD_Delete(id)]_vars

\* C25: when create_memory_connection writes its document, the connection
\* is persisted with the endpoints it was given; if no endpoint was deleted
\* during the call both endpoints exist at the time of the write, and if
\* one was deleted after its existence check the connection is persisted
\* all the same and names a memory the index no longer holds.
C25_CheckThenWrite ==
    [][(/\ h.op = "create_memory_connection" /\ h.pc = "embedding"
        /\ h'.pc = "done" /\ h'.response.kind = "ok") =>
           LET before == IndexDocs(h.memory_index)
               after == es'.docs[h.memory_index]
               endpoints == {h.args.source_id, h.args.target_id}
           IN /\ h.memory_id \in DOMAIN after
              /\ after[h.memory_id].source_id = Some(h.args.source_id)
              /\ after[h.memory_id].target_id = Some(h.args.target_id)
              /\ endpoints \cap h.deleted = {} => endpoints \subseteq DOMAIN before
              /\ endpoints \cap h.deleted # {} => ~(endpoints \subseteq DOMAIN after)]_vars

\* C25 witness: the connection is stored and its source is gone.
C25_Witness ==
    /\ h.op = "create_memory_connection" /\ h.pc = "done" /\ h.response.kind = "ok"
    /\ h.memory_id \in DOMAIN IndexDocs(h.memory_index)
    /\ h.args.source_id \in h.deleted
    /\ h.args.source_id \notin DOMAIN IndexDocs(h.memory_index)

====
